---- MODULE Spec2Model ----
(***************************************************************************)
(* Model of the survey API of src/server.js: the Joi schema validator,     *)
(* the POST /api/surveys handler with its asynchronous insert callbacks,   *)
(* and the read routes over the surveys / responses tables.                *)
(*                                                                         *)
(* Texts that the program takes apart (the JSON storage form of an         *)
(* answer, a completed_at text, a CSV line) are sequences of characters; a *)
(* word with no character that JSON or CSV treats specially, such as an    *)
(* object key, an identifier or a column name, may stand as one element.   *)
(***************************************************************************)
EXTENDS Integers, Sequences, FiniteSets, TLC

(***************************************************************************)
(* Bounds                                                                  *)
(***************************************************************************)
\* The question count of surveySchema, .max(20) and .length(20) in the source.
\* The model is parametric in it and is checked with a small count.
NumQuestions == 2

\* Number of POST /api/surveys requests that may be in flight together.
MaxRequests == 2

\* The number of surveys in the store that the routes of a study read.
MaxSurveys == 5

\* The page numbers and the page sizes that a client of the listing asks for.
MaxPage == 3
MaxLimit == 2

(***************************************************************************)
(* JavaScript values of an answer: string | number | boolean | array | null *)
(***************************************************************************)
\* One record shape for every value, so that any two values can be compared.
\* An object keeps its keys in k and the values, in the same order, in a.
Str(s)    == [t |-> "string",  n |-> 0, b |-> FALSE, s |-> s,    a |-> <<>>, k |-> <<>>]
Num(n)    == [t |-> "number",  n |-> n, b |-> FALSE, s |-> <<>>, a |-> <<>>, k |-> <<>>]
Bool(b)   == [t |-> "boolean", n |-> 0, b |-> b,     s |-> <<>>, a |-> <<>>, k |-> <<>>]
Arr(a)    == [t |-> "array",   n |-> 0, b |-> FALSE, s |-> <<>>, a |-> a,    k |-> <<>>]
Obj(k, a) == [t |-> "object",  n |-> 0, b |-> FALSE, s |-> <<>>, a |-> a,    k |-> k]
Null      == [t |-> "null",    n |-> 0, b |-> FALSE, s |-> <<>>, a |-> <<>>, k |-> <<>>]
\* What JSON.parse cannot produce: stands for the SyntaxError it throws.
SyntaxError == [t |-> "SyntaxError", n |-> 0, b |-> FALSE, s |-> <<>>, a |-> <<>>, k |-> <<>>]

DQ == "\""
BS == "\\"
Digits == <<"0", "1", "2", "3", "4", "5", "6", "7", "8", "9">>

DigitOf(c) == CHOOSE d \in 0..9 : Digits[d + 1] = c
IsDigit(c) == \E d \in 0..9 : Digits[d + 1] = c

RECURSIVE NatToChars(_)
NatToChars(n) ==
    IF n < 10 THEN <<Digits[n + 1]>>
    ELSE NatToChars(n \div 10) \o <<Digits[(n % 10) + 1]>>

NumToChars(n) == IF n < 0 THEN <<"-">> \o NatToChars(0 - n) ELSE NatToChars(n)

\* JSON.stringify of a string: quotes and backslashes are escaped.
RECURSIVE EscapeChars(_)
EscapeChars(s) ==
    IF s = <<>> THEN <<>>
    ELSE (IF Head(s) = DQ \/ Head(s) = BS THEN <<BS, Head(s)>> ELSE <<Head(s)>>)
         \o EscapeChars(Tail(s))

RECURSIVE JSONstringify(_)
RECURSIVE StringifyElems(_)
RECURSIVE StringifyMembers(_, _)
StringifyElems(a) ==
    IF a = <<>> THEN <<>>
    ELSE IF Len(a) = 1 THEN JSONstringify(a[1])
    ELSE JSONstringify(Head(a)) \o <<",">> \o StringifyElems(Tail(a))

StringifyMembers(k, a) ==
    IF k = <<>> THEN <<>>
    ELSE <<DQ>> \o EscapeChars(Head(k)) \o <<DQ, ":">> \o JSONstringify(Head(a))
         \o (IF Len(k) = 1 THEN <<>> ELSE <<",">> \o StringifyMembers(Tail(k), Tail(a)))

JSONstringify(v) ==
    CASE v.t = "string"  -> <<DQ>> \o EscapeChars(v.s) \o <<DQ>>
      [] v.t = "number"  -> NumToChars(v.n)
      [] v.t = "boolean" -> IF v.b THEN <<"t", "r", "u", "e">>
                                   ELSE <<"f", "a", "l", "s", "e">>
      [] v.t = "array"   -> <<"[">> \o StringifyElems(v.a) \o <<"]">>
      [] v.t = "object"  -> <<"{">> \o StringifyMembers(v.k, v.a) \o <<"}">>
      [] OTHER           -> <<"n", "u", "l", "l">>

(***************************************************************************)
(* JSON.parse: a recursive-descent reader of the text.  Each Parse*        *)
(* operator returns [ok, v, rest].                                         *)
(***************************************************************************)
PFail == [ok |-> FALSE, v |-> SyntaxError, rest |-> <<>>]
POk(v, rest) == [ok |-> TRUE, v |-> v, rest |-> rest]

StartsWith(txt, pre) ==
    /\ Len(txt) >= Len(pre)
    /\ SubSeq(txt, 1, Len(pre)) = pre
Drop(txt, k) == SubSeq(txt, k + 1, Len(txt))

\* The characters of a string literal after its opening quote.
RECURSIVE ParseStringBody(_, _)
ParseStringBody(txt, acc) ==
    IF txt = <<>> THEN PFail
    ELSE IF Head(txt) = DQ THEN POk(Str(acc), Tail(txt))
    ELSE IF Head(txt) = BS
         THEN IF Len(txt) >= 2 /\ (txt[2] = DQ \/ txt[2] = BS)
              THEN ParseStringBody(Drop(txt, 2), Append(acc, txt[2]))
              ELSE PFail
    ELSE ParseStringBody(Tail(txt), Append(acc, Head(txt)))

RECURSIVE ParseDigits(_, _)
ParseDigits(txt, acc) ==
    IF txt # <<>> /\ IsDigit(Head(txt))
    THEN ParseDigits(Tail(txt), 10 * acc + DigitOf(Head(txt)))
    ELSE [n |-> acc, rest |-> txt]

ParseNumber(txt) ==
    LET neg  == txt # <<>> /\ Head(txt) = "-"
        body == IF neg THEN Tail(txt) ELSE txt
    IN  IF body = <<>> \/ ~IsDigit(Head(body)) THEN PFail
        ELSE LET d == ParseDigits(body, 0)
             IN  POk(Num(IF neg THEN 0 - d.n ELSE d.n), d.rest)

RECURSIVE ParseValue(_)
RECURSIVE ParseElems(_, _)
RECURSIVE ParseMembers(_, _, _)
\* The members of an object after "{" or after a ",".
ParseMembers(txt, ks, vs) ==
    IF txt = <<>> \/ Head(txt) # DQ THEN PFail
    ELSE LET key == ParseStringBody(Tail(txt), <<>>)
         IN  IF ~key.ok \/ key.rest = <<>> \/ Head(key.rest) # ":" THEN PFail
             ELSE LET e == ParseValue(Tail(key.rest))
                  IN  IF ~e.ok \/ e.rest = <<>> THEN PFail
                      ELSE IF Head(e.rest) = "}"
                           THEN POk(Obj(Append(ks, key.v.s), Append(vs, e.v)), Tail(e.rest))
                      ELSE IF Head(e.rest) = ","
                           THEN ParseMembers(Tail(e.rest), Append(ks, key.v.s), Append(vs, e.v))
                      ELSE PFail

\* The elements of an array after "[" or after a ",".
ParseElems(txt, acc) ==
    LET e == ParseValue(txt)
    IN  IF ~e.ok \/ e.rest = <<>> THEN PFail
        ELSE IF Head(e.rest) = "]" THEN POk(Arr(Append(acc, e.v)), Tail(e.rest))
        ELSE IF Head(e.rest) = "," THEN ParseElems(Tail(e.rest), Append(acc, e.v))
        ELSE PFail

ParseValue(txt) ==
    IF txt = <<>> THEN PFail
    ELSE IF Head(txt) = DQ THEN ParseStringBody(Tail(txt), <<>>)
    ELSE IF StartsWith(txt, <<"t", "r", "u", "e">>) THEN POk(Bool(TRUE), Drop(txt, 4))
    ELSE IF StartsWith(txt, <<"f", "a", "l", "s", "e">>) THEN POk(Bool(FALSE), Drop(txt, 5))
    ELSE IF StartsWith(txt, <<"n", "u", "l", "l">>) THEN POk(Null, Drop(txt, 4))
    ELSE IF StartsWith(txt, <<"[", "]">>) THEN POk(Arr(<<>>), Drop(txt, 2))
    ELSE IF Head(txt) = "[" THEN ParseElems(Tail(txt), <<>>)
    ELSE IF StartsWith(txt, <<"{", "}">>) THEN POk(Obj(<<>>, <<>>), Drop(txt, 2))
    ELSE IF Head(txt) = "{" THEN ParseMembers(Tail(txt), <<>>, <<>>)
    ELSE ParseNumber(txt)

JSONparse(txt) ==
    LET r == ParseValue(txt)
    IN  IF r.ok /\ r.rest = <<>> THEN r.v ELSE SyntaxError

(***************************************************************************)
(* Request bodies.  A body is [patientId, studyId, responses, metadata];   *)
(* a missing string property is Undefined, a missing completedAt is 0 and  *)
(* a completedAt that is no ISO date is -1.                                *)
(***************************************************************************)
Undefined == "undefined"

Entry(q, text, ans, type) ==
    [questionId |-> q, question |-> text, answer |-> ans, responseType |-> type]

NoMetadata == [present |-> FALSE, completedAt |-> 0]
Metadata(t) == [present |-> TRUE, completedAt |-> t]

Body(p, st, rs, m) == [patientId |-> p, studyId |-> st, responses |-> rs, metadata |-> m]

(***************************************************************************)
(* surveySchema: the violations Joi finds, in the order it visits the keys *)
(***************************************************************************)
Detail(field, index, key, type) ==
    [field |-> field, index |-> index, key |-> key, type |-> type]

\* Joi.string().required()
StringErrors(field, index, key, v) ==
    IF v = Undefined THEN <<Detail(field, index, key, "any.required")>>
    ELSE IF v = "" THEN <<Detail(field, index, key, "string.empty")>>
    ELSE <<>>

\* Joi.number().integer().min(1).max(20).required()
QuestionIdErrors(index, q) ==
    IF q < 1 THEN <<Detail("responses", index, "questionId", "number.min")>>
    ELSE IF q > NumQuestions THEN <<Detail("responses", index, "questionId", "number.max")>>
    ELSE <<>>

\* Joi.alternatives().try(Joi.string(), Joi.number(), Joi.boolean(), Joi.array())
AnswerMatches(a) ==
    \/ a.t = "string" /\ a.s # <<>>
    \/ a.t = "number"
    \/ a.t = "boolean"
    \/ a.t = "array"

AnswerErrors(index, a) ==
    IF AnswerMatches(a) THEN <<>>
    ELSE <<Detail("responses", index, "answer", "alternatives.match")>>

\* Joi.string().valid(...).required()
ResponseTypes == {"text", "number", "boolean", "scale", "multiple_choice"}

ResponseTypeErrors(index, ty) ==
    IF ty = Undefined THEN <<Detail("responses", index, "responseType", "any.required")>>
    ELSE IF ty \notin ResponseTypes
         THEN <<Detail("responses", index, "responseType", "any.only")>>
    ELSE <<>>

ItemErrors(e, index) ==
    QuestionIdErrors(index, e.questionId)
    \o (IF e.question = <<>>
        THEN <<Detail("responses", index, "question", "string.empty")>> ELSE <<>>)
    \o AnswerErrors(index, e.answer)
    \o ResponseTypeErrors(index, e.responseType)

RECURSIVE ItemsErrors(_, _)
ItemsErrors(rs, i) ==
    IF i > Len(rs) THEN <<>>
    ELSE ItemErrors(rs[i], i - 1) \o ItemsErrors(rs, i + 1)

\* The length rule written as an upper limit only.
LengthErrorsMaxOnly(rs) ==
    IF Len(rs) > NumQuestions
    THEN <<Detail("responses", -1, "", "array.length")>> ELSE <<>>

\* .length(20)
LengthErrors(rs) ==
    IF Len(rs) # NumQuestions
    THEN <<Detail("responses", -1, "", "array.length")>> ELSE <<>>

\* metadata: Joi.object({completedAt: Joi.date().iso(), ...}).optional()
MetadataErrors(m) ==
    IF m.present /\ m.completedAt < 0
    THEN <<Detail("metadata", -1, "completedAt", "date.format")>> ELSE <<>>

JoiErrors(body) ==
    StringErrors("patientId", -1, "", body.patientId)
    \o StringErrors("studyId", -1, "", body.studyId)
    \o ItemsErrors(body.responses, 1)
    \o LengthErrors(body.responses)
    \o MetadataErrors(body.metadata)

\* surveySchema.validate(req.body): no options are passed, so Joi runs with
\* abortEarly: true and reports the first violation only.
validate(body) ==
    LET errs == JoiErrors(body)
    IN  [error   |-> errs # <<>>,
         details |-> IF errs = <<>> THEN <<>> ELSE <<Head(errs)>>,
         value   |-> body]

(***************************************************************************)
(* State                                                                   *)
(***************************************************************************)
VARIABLES
    surveys,    \* the rows of table surveys
    responses,  \* the rows of table responses
    reqs,       \* the POST /api/surveys requests: handler locals and replies
    nextUuid,   \* uuidv4(): the next token it hands out
    clock,      \* new Date(): the current time
    reader,     \* the GET /api/surveys/:surveyId request and its reply
    query,      \* the reply to the last GET /api/studies/:studyId/... request
    pager,      \* a client that reads the listing of a study page by page
    pg,         \* the database of setup-database.js
    script      \* the run of setup-database.js: position, results, pooled client

vars == <<surveys, responses, reqs, nextUuid, clock, reader, query, pager, pg, script>>
store == <<surveys, responses>>

Requests == 1..MaxRequests

\* A time t is the number of milliseconds, 0..999, after
\* 2026-11-06T00:00:00.000Z, which is 1793923200000 ms after the epoch.
Pad3(t) == <<Digits[(t \div 100) + 1], Digits[((t \div 10) % 10) + 1], Digits[(t % 10) + 1]>>

\* new Date(t).toISOString()
IsoChars(t) ==
    <<"2", "0", "2", "6", "-", "1", "1", "-", "0", "6", "T",
      "0", "0", ":", "0", "0", ":", "0", "0", ".">> \o Pad3(t) \o <<"Z">>

\* The text that a TEXT column keeps of the number date.getTime().
EpochChars(t) ==
    <<"1", "7", "9", "3", "9", "2", "3", "2", "0", "0">> \o Pad3(t) \o <<".", "0">>

\* metadata?.completedAt || new Date().toISOString(): Joi has turned a supplied
\* completedAt into a Date, which the driver binds as a number; the default is
\* the ISO text of the current time.
CompletedAt(m, now) ==
    IF m.present /\ m.completedAt > 0
    THEN [kind |-> "number", t |-> m.completedAt]
    ELSE [kind |-> "text", t |-> now]

\* JSON.stringify(metadata || {})
MetadataText(m) ==
    IF m.present /\ m.completedAt > 0
    THEN JSONstringify(Obj(<< <<"completedAt">> >>, <<Str(IsoChars(m.completedAt))>>))
    ELSE JSONstringify(Obj(<<>>, <<>>))

SurveyRow(id, body, now) ==
    [survey_id    |-> id,
     patient_id   |-> body.patientId,
     study_id     |-> body.studyId,
     completed_at |-> CompletedAt(body.metadata, now),
     metadata     |-> MetadataText(body.metadata)]

ResponseRow(responseId, surveyId, response) ==
    [response_id   |-> responseId,
     survey_id     |-> surveyId,
     question_id   |-> response.questionId,
     question_text |-> response.question,
     answer        |-> JSONstringify(response.answer),
     response_type |-> response.responseType]

Reply(status, surveyId, details) ==
    [status |-> status, surveyId |-> surveyId, details |-> details]

NoBody == Body(Undefined, Undefined, <<>>, NoMetadata)

\* A request that has not arrived yet.  failed is the set of response positions
\* whose insert failed; firstId is the uuid drawn for the first response row.
IdleRequest ==
    [phase     |-> "idle",
     body      |-> NoBody,
     surveyId  |-> 0,
     header    |-> SurveyRow(0, NoBody, 0),
     firstId   |-> 0,
     completed |-> 0,
     hasError  |-> FALSE,
     pending   |-> {},
     failed    |-> {},
     replies   |-> <<>>]

\* No GET request yet.  dbError tells whether the driver reported an error to the
\* request's last callback; afterReply tells whether the submission that owns
\* the requested id had already replied 200 when the request arrived.
IdleReader ==
    [phase |-> "idle", id |-> 0, status |-> 0, survey |-> {}, responses |-> <<>>,
     dbError |-> FALSE, afterReply |-> FALSE]

\* No GET /api/studies/... request yet.  A reply carries the rows of its JSON
\* body (the surveys of a listing, the data of an export, the one row of the
\* analytics), or the lines of its CSV body.
NoQuery ==
    [op |-> "none", studyId |-> "", page |-> 0, limit |-> 0, format |-> "",
     status |-> 0, rows |-> <<>>, hasMore |-> FALSE, csv |-> <<>>]

\* No client is paging.  start holds the ids of the surveys that the study
\* had when the client began, seen those it has been returned.
IdlePager ==
    [phase |-> "idle", studyId |-> "", page |-> 0, limit |-> 0,
     start |-> {},   \* the ids of the surveys of the study when it began
     seen  |-> {},   \* the ids it has been returned
     again |-> {}]   \* the ids it has been returned on more than one page

\* The database server before setup-database.js has run: no table, no
\* function, no row.  nextId is the next value of uuid_generate_v4().
NoDatabase ==
    [objects |-> {}, surveys |-> {}, survey_responses |-> {}, survey_audit_log |-> {},
     study_configs |-> {}, nextId |-> 1]

\* setup-database.js has not been started.  runs holds what the calls of
\* initializeDatabase and testDatabase that have finished did; the other
\* fields belong to the call that is running.
IdleScript ==
    [pc |-> "idle",
     started    |-> 0,        \* how often the script has been started
     production |-> FALSE,    \* process.env.NODE_ENV === 'production'
     runs       |-> <<>>,
     surveyId   |-> 0,        \* surveyResult.rows[0].id
     connected  |-> 0,        \* clients that pool.connect() has handed out
     released   |-> 0,        \* calls of client.release()
     thrown     |-> FALSE,    \* the try block has thrown
     lost       |-> FALSE,    \* a statement failed for a reason outside its SQL
     stats      |-> <<>>,     \* the rows of SELECT get_survey_stats(...)
     statsOf    |-> {},       \* its argument: {} for NULL, else {study id}
     before     |-> NoDatabase]

Init ==
    /\ surveys = {}
    /\ responses = {}
    /\ reqs = [r \in Requests |-> IdleRequest]
    /\ nextUuid = 1
    /\ clock = 1
    /\ reader = IdleReader
    /\ query = NoQuery
    /\ pager = IdlePager
    /\ pg = NoDatabase
    /\ script = IdleScript

(***************************************************************************)
(* POST /api/surveys                                                       *)
(***************************************************************************)
\* A uuid handed out twice.
uuidv4Repeated(n) == 1

\* uuidv4(): the n-th token it hands out; no two are equal.
uuidv4(n) == n

\* The handler up to the header's db.run: validation, uuid, header values.
Submit(r, body) ==
    /\ reqs[r].phase = "idle"
    /\ LET v == validate(body)
       IN  IF v.error
           THEN /\ reqs' = [reqs EXCEPT ![r].phase = "closed",
                                        ![r].body = body,
                                        ![r].replies = <<Reply(400, 0, v.details)>>]
                /\ UNCHANGED <<nextUuid, clock>>
           ELSE /\ reqs' = [reqs EXCEPT ![r].phase = "header",
                                        ![r].body = v.value,
                                        ![r].surveyId = uuidv4(nextUuid),
                                        ![r].header = SurveyRow(uuidv4(nextUuid), v.value, clock)]
                /\ nextUuid' = nextUuid + 1
                /\ clock' = clock + 1
    /\ UNCHANGED <<surveys, responses, reader, query, pager, pg, script>>

\* The table with nothing but the new row.
InsertIntoEmptied(table, row) == {row}

\* INSERT INTO table ... VALUES (...)
InsertInto(table, row) == table \cup {row}

\* The error branch of the header callback without its return.
ReturnsOnHeaderErrorNever(err) == FALSE

\* if (err) { ...; return res.status(500).json(...); }
ReturnsOnHeaderError(err) == err

\* The header insert and its callback.  On an error the callback replies 500
\* and returns; otherwise it starts one insert per response, each with its
\* own uuid.
HeaderInsertDone(r, err) ==
    /\ reqs[r].phase = "header"
    /\ surveys' = IF err THEN surveys ELSE InsertInto(surveys, reqs[r].header)
    /\ IF ReturnsOnHeaderError(err)
       THEN /\ reqs' = [reqs EXCEPT ![r].phase = "closed",
                                    ![r].replies = Append(@, Reply(500, 0, <<>>))]
            /\ UNCHANGED nextUuid
       ELSE /\ reqs' = [reqs EXCEPT ![r].phase = "responses",
                                    ![r].replies =
                                        IF err THEN Append(@, Reply(500, 0, <<>>)) ELSE @,
                                    ![r].firstId = uuidv4(nextUuid),
                                    ![r].completed = 0,
                                    ![r].hasError = FALSE,
                                    ![r].pending = 1..Len(reqs[r].body.responses)]
            /\ nextUuid' = nextUuid + Len(reqs[r].body.responses)
    /\ UNCHANGED <<responses, clock, reader, query, pager, pg, script>>

\* The error branch without its guard: every failed insert sends a reply.
FirstErrorUnguarded(err, hasError) == err

\* if (err && !hasError)
FirstError(err, hasError) == err /\ ~hasError

\* The success test taken as soon as one insert has completed.
AllCompletedAfterFirst(completed, length, hasError) == completed >= 1 /\ ~hasError

\* if (completed === responses.length && !hasError)
AllCompleted(completed, length, hasError) == completed = length /\ ~hasError

\* The insert of the response at position i and its callback.
ResponseInsertDone(r, i, err) ==
    LET q      == reqs[r]
        row    == ResponseRow(q.firstId + i - 1, q.surveyId, q.body.responses[i])
        left   == q.pending \ {i}
        phase  == IF left = {} THEN "closed" ELSE "responses"
        failed == IF err THEN q.failed \cup {i} ELSE q.failed
    IN  /\ q.phase = "responses"
        /\ i \in q.pending
        /\ responses' = IF err THEN responses ELSE InsertInto(responses, row)
        /\ IF FirstError(err, q.hasError)
           THEN reqs' = [reqs EXCEPT ![r].hasError = TRUE,
                                     ![r].replies = Append(@, Reply(500, 0, <<>>)),
                                     ![r].pending = left,
                                     ![r].failed = failed,
                                     ![r].phase = phase]
           ELSE reqs' = [reqs EXCEPT
                    ![r].completed = q.completed + 1,
                    ![r].replies =
                        IF AllCompleted(q.completed + 1, Len(q.body.responses), q.hasError)
                        THEN Append(@, Reply(200, q.surveyId, <<>>))
                        ELSE @,
                    ![r].pending = left,
                    ![r].failed = failed,
                    ![r].phase = phase]
        /\ UNCHANGED <<surveys, nextUuid, clock, reader, query, pager, pg, script>>

(***************************************************************************)
(* GET /api/surveys/:surveyId                                              *)
(***************************************************************************)
\* SELECT * FROM responses WHERE survey_id = ? ORDER BY question_id: every
\* order of the rows that is ascending in question_id (rows with equal
\* question_id come in either order).
RECURSIVE OrderedByQuestionId(_)
OrderedByQuestionId(rows) ==
    IF rows = {} THEN {<<>>}
    ELSE LET least == {x \in rows : \A y \in rows : x.question_id <= y.question_id}
         IN  UNION {{<<x>> \o rest : rest \in OrderedByQuestionId(rows \ {x})} : x \in least}

ResponsesOf(id) == {x \in responses : x.survey_id = id}

\* The rows passed on with the stored answer text, JSON.parse left out.
ParseAnswersOmitted(rows) == [i \in 1..Len(rows) |-> rows[i]]

\* responses.map(r => ({...r, answer: JSON.parse(r.answer)}))
ParseAnswers(rows) ==
    [i \in 1..Len(rows) |-> [rows[i] EXCEPT !.answer = JSONparse(@)]]

\* The callback of db.get without its test for a missing row.
LookupStatusNoMissingTest(err, found) == IF err THEN 500 ELSE 0

\* The callback of db.get: 500 on an error, 404 when no row came back, and
\* otherwise (0) on to the responses query.
LookupStatus(err, found) ==
    IF err THEN 500
    ELSE IF found = {} THEN 404
    ELSE 0

Replied200(id) ==
    \E r \in Requests :
        /\ reqs[r].surveyId = id
        /\ \E k \in 1..Len(reqs[r].replies) : reqs[r].replies[k].status = 200

\* db.get(surveyQuery) and its callback.
GetByIdLookup(id, err) ==
    /\ reader.phase # "responses"
    /\ LET found  == {s \in surveys : s.survey_id = id}
           status == LookupStatus(err, found)
       IN  reader' =
             IF status # 0
             THEN [IdleReader EXCEPT !.phase = "done", !.id = id, !.status = status,
                                     !.dbError = err,
                                     !.afterReply = Replied200(id)]
             ELSE [IdleReader EXCEPT !.phase = "responses", !.id = id, !.survey = found,
                                     !.afterReply = Replied200(id)]
    /\ UNCHANGED <<surveys, responses, reqs, nextUuid, clock, query, pager, pg, script>>

\* db.all(responsesQuery) and its callback.
GetByIdResponses(err) ==
    /\ reader.phase = "responses"
    /\ IF err
       THEN reader' = [reader EXCEPT !.phase = "done", !.status = 500, !.survey = {},
                                     !.dbError = TRUE]
       ELSE \E rows \in OrderedByQuestionId(ResponsesOf(reader.id)) :
                reader' = [reader EXCEPT
                    !.phase = "done",
                    !.status = 200,
                    !.survey = {[s EXCEPT !.metadata = JSONparse(@)] : s \in reader.survey},
                    !.responses = ParseAnswers(rows)]
    /\ UNCHANGED <<surveys, responses, reqs, nextUuid, clock, query, pager, pg, script>>

(***************************************************************************)
(* GET /api/studies/:studyId/surveys                                       *)
(***************************************************************************)
\* The characters of a completed_at text, in the order of their bytes.
Collation ==
    <<"-", ".", "0", "1", "2", "3", "4", "5", "6", "7", "8", "9", ":", "T", "Z">>

Rank(c) == CHOOSE i \in 1..Len(Collation) : Collation[i] = c

\* The comparison of two TEXT values: byte by byte, a proper prefix first.
RECURSIVE TextLess(_, _)
TextLess(a, b) ==
    IF b = <<>> THEN FALSE
    ELSE IF a = <<>> THEN TRUE
    ELSE IF Head(a) = Head(b) THEN TextLess(Tail(a), Tail(b))
    ELSE Rank(Head(a)) < Rank(Head(b))

\* The text that the completed_at column, of type TEXT, holds.
CompletedAtText(c) == IF c.kind = "number" THEN EpochChars(c.t) ELSE IsoChars(c.t)

SurveysOf(studyId) == {s \in surveys : s.study_id = studyId}

\* SELECT s.*, COUNT(r.response_id) as response_count ... GROUP BY s.survey_id
ListRow(s) ==
    [survey_id      |-> s.survey_id,
     patient_id     |-> s.patient_id,
     study_id       |-> s.study_id,
     completed_at   |-> CompletedAtText(s.completed_at),
     metadata       |-> s.metadata,
     response_count |-> Cardinality(ResponsesOf(s.survey_id))]

\* ORDER BY s.completed_at DESC: every order of the rows that is descending
\* in the completed_at text (rows with equal texts come in either order).
RECURSIVE OrderedByCompletedAt(_)
OrderedByCompletedAt(rows) ==
    IF rows = {} THEN {<<>>}
    ELSE LET first == {x \in rows :
                         \A y \in rows : ~TextLess(x.completed_at, y.completed_at)}
         IN  UNION {{<<x>> \o rest : rest \in OrderedByCompletedAt(rows \ {x})} : x \in first}

\* An offset that counts the requested page in: page * limit.
LimitOffsetPastPage(rows, limit, offset) ==
    SubSeq(rows, offset + limit + 1,
           IF offset + limit + limit < Len(rows) THEN offset + limit + limit ELSE Len(rows))

\* LIMIT ? OFFSET ?
LimitOffset(rows, limit, offset) ==
    SubSeq(rows, offset + 1, IF offset + limit < Len(rows) THEN offset + limit ELSE Len(rows))

\* const { page = 1, limit = 50 } = req.query
DefaultPage == 1
DefaultLimit == 50

\* hasMore taken to be true of every page that has a survey.
HasMoreNonEmpty(rows, limit) == Len(rows) > 0

\* hasMore: rows.length === parseInt(limit)
HasMore(rows, limit) == Len(rows) = limit

\* JSON.parse(row.metadata || '{}')
ParseMetadata(rows) ==
    [i \in 1..Len(rows) |->
        [rows[i] EXCEPT !.metadata = JSONparse(IF @ = <<>> THEN <<"{", "}">> ELSE @)]]

\* The handler and the callback of its db.all.  A page or a limit of 0 stands
\* for a query string without that parameter.
ListByStudy(studyId, page, limit, err) ==
    LET p      == IF page = 0 THEN DefaultPage ELSE page
        l      == IF limit = 0 THEN DefaultLimit ELSE limit
        offset == (p - 1) * l
        found  == {ListRow(s) : s \in SurveysOf(studyId)}
    IN  /\ IF err
           THEN query' = [NoQuery EXCEPT !.op = "list", !.studyId = studyId, !.status = 500]
           ELSE \E sorted \in OrderedByCompletedAt(found) :
                   LET rows == LimitOffset(sorted, l, offset)
                   IN  query' = [NoQuery EXCEPT
                                    !.op = "list", !.studyId = studyId,
                                    !.page = p, !.limit = l,
                                    !.status = 200,
                                    !.rows = ParseMetadata(rows),
                                    !.hasMore = HasMore(rows, l)]
        /\ UNCHANGED <<surveys, responses, reqs, nextUuid, clock, reader, pg, script>>

(***************************************************************************)
(* GET /api/studies/:studyId/export                                        *)
(***************************************************************************)
\* What the LEFT JOIN pairs a survey without response rows with.
NoResponse ==
    [response_id |-> 0, survey_id |-> 0, question_id |-> 0,
     question_text |-> <<>>, answer |-> <<>>, response_type |-> ""]

\* FROM surveys s LEFT JOIN responses r ON s.survey_id = r.survey_id
\* WHERE s.study_id = ?
Joined(studyId) ==
    UNION {IF ResponsesOf(s.survey_id) = {}
           THEN {[s |-> s, r |-> NoResponse]}
           ELSE {[s |-> s, r |-> r] : r \in ResponsesOf(s.survey_id)} :
           s \in SurveysOf(studyId)}

\* ORDER BY s.completed_at DESC, r.question_id ASC: x comes before y.
ExportBefore(x, y) ==
    LET cx == CompletedAtText(x.s.completed_at)
        cy == CompletedAtText(y.s.completed_at)
    IN  \/ TextLess(cy, cx)
        \/ cx = cy /\ x.r.question_id < y.r.question_id

\* Every order of the pairs that the ORDER BY admits.
RECURSIVE OrderedForExport(_)
OrderedForExport(pairs) ==
    IF pairs = {} THEN {<<>>}
    ELSE LET first == {x \in pairs : \A y \in pairs : ~ExportBefore(y, x)}
         IN  UNION {{<<x>> \o rest : rest \in OrderedForExport(pairs \ {x})} : x \in first}

\* The columns of the SELECT; those of r are NULL in an unmatched row.
ExportRow(x) ==
    [survey_id     |-> x.s.survey_id,
     patient_id    |-> x.s.patient_id,
     study_id      |-> x.s.study_id,
     completed_at  |-> CompletedAtText(x.s.completed_at),
     metadata      |-> x.s.metadata,
     question_id   |-> IF x.r = NoResponse THEN Null ELSE Num(x.r.question_id),
     question_text |-> IF x.r = NoResponse THEN Null ELSE Str(x.r.question_text),
     answer        |-> IF x.r = NoResponse THEN Null ELSE Str(x.r.answer),
     response_type |-> IF x.r = NoResponse THEN Null ELSE Str(<<x.r.response_type>>)]

\* String(value)
RECURSIVE JsString(_)
RECURSIVE JoinStrings(_)
JoinStrings(a) ==
    IF a = <<>> THEN <<>>
    ELSE (IF Head(a).t = "null" THEN <<>> ELSE JsString(Head(a)))
         \o (IF Len(a) = 1 THEN <<>> ELSE <<",">> \o JoinStrings(Tail(a)))

JsString(v) ==
    CASE v.t = "string"  -> v.s
      [] v.t = "number"  -> NumToChars(v.n)
      [] v.t = "boolean" -> IF v.b THEN <<"t", "r", "u", "e">>
                                   ELSE <<"f", "a", "l", "s", "e">>
      [] v.t = "array"   -> JoinStrings(v.a)
      [] v.t = "object"  -> <<"[object Object]">>
      [] OTHER           -> <<"n", "u", "l", "l">>

\* value = JSON.parse(value); if (typeof value === 'object') value = JSON.stringify(value)
CsvAnswer(value) ==
    LET parsed == JSONparse(JsString(value))
    IN  IF parsed.t \in {"array", "object", "null"} THEN Str(JSONstringify(parsed))
        ELSE parsed

\* The value put between the quotes as it is.
ReplaceQuotesOmitted(s) == s

\* .replace(/"/g, '""')
RECURSIVE ReplaceQuotes(_)
ReplaceQuotes(s) ==
    IF s = <<>> THEN <<>>
    ELSE (IF Head(s) = DQ THEN <<DQ, DQ>> ELSE <<Head(s)>>) \o ReplaceQuotes(Tail(s))

\* `"${String(value).replace(/"/g, '""')}"`
CsvCell(value) == <<DQ>> \o ReplaceQuotes(JsString(value)) \o <<DQ>>

\* const headers = [...]
Headers ==
    <<"survey_id", "patient_id", "study_id", "completed_at",
      "question_id", "question_text", "answer", "response_type">>

\* row[header] of a survey-level column
SurveyColumn(row, header) ==
    CASE header = "survey_id"    -> Str(NatToChars(row.survey_id))
      [] header = "patient_id"   -> Str(<<row.patient_id>>)
      [] header = "study_id"     -> Str(<<row.study_id>>)
      [] OTHER                   -> Str(row.completed_at)

\* headers.map(header => ...)
CsvValues(row) ==
    [i \in 1..Len(Headers) |->
        CASE Headers[i] = "question_id"   -> CsvCell(row.question_id)
          [] Headers[i] = "question_text" -> CsvCell(row.question_text)
          [] Headers[i] = "answer"        -> CsvCell(CsvAnswer(row.answer))
          [] Headers[i] = "response_type" -> CsvCell(row.response_type)
          [] OTHER                        -> CsvCell(SurveyColumn(row, Headers[i]))]

\* join(',')
RECURSIVE JoinComma(_)
JoinComma(parts) ==
    IF parts = <<>> THEN <<>>
    ELSE IF Len(parts) = 1 THEN parts[1]
    ELSE parts[1] \o <<",">> \o JoinComma(Tail(parts))

\* The lines of csv, each without the '\n' that ends it.
Csv(rows) ==
    <<JoinComma([i \in 1..Len(Headers) |-> <<Headers[i]>>])>>
    \o [i \in 1..Len(rows) |-> JoinComma(CsvValues(rows[i]))]

\* The handler and the callback of its db.all.  A format of "" stands for a
\* query string without that parameter.
ExportByStudy(studyId, format, err) ==
    /\ IF err
       THEN query' = [NoQuery EXCEPT !.op = "export", !.studyId = studyId, !.status = 500]
       ELSE \E sorted \in OrderedForExport(Joined(studyId)) :
               LET rows == [i \in 1..Len(sorted) |-> ExportRow(sorted[i])]
               IN  query' = [NoQuery EXCEPT
                                !.op = "export", !.studyId = studyId,
                                !.format = IF format = "csv" THEN "csv" ELSE "json",
                                !.status = 200,
                                !.rows = IF format = "csv" THEN <<>> ELSE rows,
                                !.csv = IF format = "csv" THEN Csv(rows) ELSE <<>>]
    /\ UNCHANGED <<surveys, responses, reqs, nextUuid, clock, reader, pager, pg, script>>

(***************************************************************************)
(* GET /api/studies/:studyId/analytics                                     *)
(***************************************************************************)
\* MIN / MAX of a TEXT column: NULL over no row.
MinText(texts) ==
    IF texts = {} THEN Null
    ELSE Str(CHOOSE x \in texts : \A y \in texts : ~TextLess(y, x))

MaxText(texts) ==
    IF texts = {} THEN Null
    ELSE Str(CHOOSE x \in texts : \A y \in texts : ~TextLess(x, y))

\* The one row of the aggregate query.  AVG is over the surveys that the
\* subquery has a count for; it is the quotient sum / rows, NULL when rows = 0.
Analytics(studyId) ==
    LET found   == SurveysOf(studyId)
        counted == {s \in found : ResponsesOf(s.survey_id) # {}}
        texts   == {CompletedAtText(s.completed_at) : s \in found}
    IN  [total_surveys   |-> Cardinality(found),
         unique_patients |-> Cardinality({s.patient_id : s \in found}),
         avg_responses_per_survey |->
             [sum  |-> Cardinality({r \in responses :
                                      \E s \in found : r.survey_id = s.survey_id}),
              rows |-> Cardinality(counted)],
         first_survey    |-> MinText(texts),
         last_survey     |-> MaxText(texts)]

\* The handler and the callback of its db.get.
GetStats(studyId, err) ==
    /\ IF err
       THEN query' = [NoQuery EXCEPT !.op = "analytics", !.studyId = studyId, !.status = 500]
       ELSE query' = [NoQuery EXCEPT
                        !.op = "analytics", !.studyId = studyId,
                        !.status = 200,
                        !.rows = <<Analytics(studyId)>>]
    /\ UNCHANGED <<surveys, responses, reqs, nextUuid, clock, reader, pager, pg, script>>

(***************************************************************************)
(* Inputs: the request bodies the clients send                             *)
(***************************************************************************)
QuestionText(q) == <<"Q">> \o NumToChars(q)

\* Answers of every shape the schema admits, among them texts that look like
\* other values and texts with the characters JSON escapes.
AnswerPool ==
    << Str(<<"a", DQ, "b", BS>>), Num(7), Str(<<"7">>), Bool(TRUE),
       Str(<<"t", "r", "u", "e">>), Arr(<<Str(<<"a">>), Str(<<"b">>)>>),
       Num(-12), Bool(FALSE), Arr(<<>>), Arr(<<Num(1), Arr(<<Bool(FALSE)>>)>>),
       Str(<<"[", "1", ",", "2", "]">>) >>

TypePool == <<"text", "number", "boolean", "scale", "multiple_choice">>

PoolAnswer(k) == AnswerPool[(k % Len(AnswerPool)) + 1]
PoolType(k) == TypePool[(k % Len(TypePool)) + 1]

\* The responses with question ids ids[1], ids[2], ..., answers from the pool.
ResponsesFor(ids, offset) ==
    [i \in 1..Len(ids) |->
        Entry(ids[i], QuestionText(ids[i]), PoolAnswer(i + offset), PoolType(i + offset))]

Identity(n) == [i \in 1..n |-> i]
Reversed(n) == [i \in 1..n |-> n + 1 - i]

GoodBody == Body("P1", "S1", ResponsesFor(Identity(NumQuestions), 0), NoMetadata)
ReversedBody == Body("P2", "S1", ResponsesFor(Reversed(NumQuestions), 4), Metadata(1))
OtherStudyBody == Body("P1", "S2", ResponsesFor(Identity(NumQuestions), 7), NoMetadata)
\* Question id 1 twice, question id 2 never.
DuplicateBody ==
    Body("P1", "S1",
         ResponsesFor([i \in 1..NumQuestions |-> IF i = 2 THEN 1 ELSE i], 0), NoMetadata)
ShortBody == Body("P1", "S1", ResponsesFor(Identity(NumQuestions - 1), 0), NoMetadata)
LongBody ==
    Body("P1", "S1",
         ResponsesFor([i \in 1..(NumQuestions + 1) |-> IF i > NumQuestions THEN 1 ELSE i], 0),
         NoMetadata)
CheckboxBody ==
    Body("P1", "S1",
         [ResponsesFor(Identity(NumQuestions), 0) EXCEPT ![1].responseType = "checkbox"],
         NoMetadata)
BogusTypeBody ==
    Body("P1", "S1",
         [ResponsesFor(Identity(NumQuestions), 0) EXCEPT ![1].responseType = "bogus"],
         NoMetadata)
\* No patientId, one response too few, and a response type outside the enumeration.
MultiBody ==
    Body(Undefined, "S1",
         [ResponsesFor(Identity(NumQuestions - 1), 0) EXCEPT ![1].responseType = "bogus"],
         NoMetadata)

\* Every order of the question ids 1..NumQuestions.
Orders ==
    {[i \in 1..NumQuestions |-> p[i]] : p \in Permutations(1..NumQuestions)}

\* Valid bodies: every order of the question ids, answers of every shape.
ValidBodies ==
    {Body("P1", "S1", ResponsesFor(ids, offset), NoMetadata) :
        ids \in Orders, offset \in 0..(Len(AnswerPool) - 1)}
    \cup {ReversedBody}

InvalidBodies ==
    {DuplicateBody, ShortBody, LongBody, CheckboxBody, BogusTypeBody, MultiBody}

(***************************************************************************)
(* Specification Spec: submissions whose callbacks interleave              *)
(***************************************************************************)
\* Requests are told apart by their bodies only, so they arrive in slot order.
Arrives(r) == IF r = 1 THEN TRUE ELSE reqs[r - 1].phase # "idle"

ConcurrentBodies == {GoodBody, ShortBody, LongBody}

Next ==
    \/ \E r \in Requests, body \in ConcurrentBodies : Arrives(r) /\ Submit(r, body)
    \/ \E r \in Requests, err \in BOOLEAN : HeaderInsertDone(r, err)
    \/ \E r \in Requests, i \in 1..NumQuestions, err \in BOOLEAN :
          ResponseInsertDone(r, i, err)

Spec == Init /\ [][Next]_vars

(***************************************************************************)
(* Specification SpecRead: one submission, of every kind of body, and a   *)
(* reader whose queries interleave with its inserts                        *)
(***************************************************************************)
\* The store as an earlier, complete submission left it: its header under
\* uuid 1 and its response rows under the uuids after it.
EarlierSurveys == {SurveyRow(1, OtherStudyBody, 0)}
EarlierResponses ==
    {ResponseRow(1 + i, 1, OtherStudyBody.responses[i]) : i \in 1..NumQuestions}

InitRead ==
    /\ \E populated \in BOOLEAN :
          /\ surveys = (IF populated THEN EarlierSurveys ELSE {})
          /\ responses = (IF populated THEN EarlierResponses ELSE {})
          /\ nextUuid = (IF populated THEN NumQuestions + 2 ELSE 1)
    /\ reqs = [r \in Requests |-> IdleRequest]
    /\ clock = 1
    /\ reader = IdleReader
    /\ query = NoQuery
    /\ pager = IdlePager
    /\ pg = NoDatabase
    /\ script = IdleScript

\* The survey ids a client may ask for: those in the store, those handed out,
\* and 0, which no survey has.
ReadIds ==
    {0} \cup {reqs[r].surveyId : r \in Requests} \cup {s.survey_id : s \in surveys}

NextRead ==
    \/ \E body \in ValidBodies \cup InvalidBodies : Submit(1, body)
    \/ \E r \in Requests, err \in BOOLEAN : HeaderInsertDone(r, err)
    \/ \E r \in Requests, i \in 1..NumQuestions, err \in BOOLEAN :
          ResponseInsertDone(r, i, err)
    \/ \E id \in ReadIds, err \in BOOLEAN : GetByIdLookup(id, err)
    \/ \E err \in BOOLEAN : GetByIdResponses(err)

SpecRead == InitRead /\ [][NextRead]_vars

(***************************************************************************)
(* Specification SpecQuery: the routes of a study, over the stores that a  *)
(* sequence of finished submissions leaves                                 *)
(***************************************************************************)
\* The kinds of submission for the study: completion time defaulted,
\* completion time supplied in metadata.completedAt, and some response
\* inserts failed.  They follow the earlier submission for another study.
Kinds == {"defaulted", "supplied", "partial"}

\* The j-th submission arrives at time 10 * j.  A supplied completion time
\* lies before the arrival, and that of an even j before that of j - 1.
ArrivalTime(j) == 10 * j
SuppliedTime(j) == IF j % 2 = 1 THEN ArrivalTime(j) - 5 ELSE ArrivalTime(j) - 17

\* The answers of the j-th submission: those of the pool from its
\* (j - 1)-th on, so that the first submission starts with the first.
AnswerOffset(j) == j + Len(AnswerPool) - 2

KindBody(kind, j) ==
    CASE kind = "supplied" ->
            Body("P2", "S1", ResponsesFor(Identity(NumQuestions), AnswerOffset(j)),
                 Metadata(SuppliedTime(j)))
      [] OTHER ->
            Body("P1", "S1", ResponsesFor(Identity(NumQuestions), AnswerOffset(j)), NoMetadata)

\* The positions of the responses whose insert succeeded.
KindInserted(kind, j) ==
    IF kind = "partial" THEN 1..(j % NumQuestions) ELSE 1..NumQuestions

\* The uuid of the header of the j-th submission; those of its response rows
\* follow it.
HeaderUuid(j) == uuidv4(j * (NumQuestions + 1) + 1)

StoredSurveys(kinds) ==
    {SurveyRow(HeaderUuid(j), validate(KindBody(kinds[j], j)).value, ArrivalTime(j)) :
        j \in 1..Len(kinds)}

StoredResponses(kinds) ==
    UNION {{ResponseRow(HeaderUuid(j) + i, HeaderUuid(j),
                        validate(KindBody(kinds[j], j)).value.responses[i]) :
               i \in KindInserted(kinds[j], j)} : j \in 1..Len(kinds)}

InitQuery ==
    /\ \E n \in 0..MaxSurveys : \E kinds \in [1..n -> Kinds] :
          /\ surveys = EarlierSurveys \cup StoredSurveys(kinds)
          /\ responses = EarlierResponses \cup StoredResponses(kinds)
          /\ nextUuid = ((n + 1) * (NumQuestions + 1)) + 1
          /\ clock = ArrivalTime(n + 1)
    /\ reqs = [r \in Requests |-> IdleRequest]
    /\ reader = IdleReader
    /\ query = NoQuery
    /\ pager = IdlePager
    /\ pg = NoDatabase
    /\ script = IdleScript

\* The study of the submissions, and one that no submission names.
QueryStudies == {"S1", "S3"}

\* One request is followed from its arrival to its reply.
Unanswered == query = NoQuery

NextQuery ==
    \/ \E studyId \in QueryStudies, page \in 0..MaxPage, limit \in 0..MaxLimit,
          err \in BOOLEAN :
             Unanswered /\ ListByStudy(studyId, page, limit, err) /\ UNCHANGED pager
    \/ \E studyId \in QueryStudies, format \in {"", "json", "csv"}, err \in BOOLEAN :
          Unanswered /\ ExportByStudy(studyId, format, err)
    \/ \E studyId \in QueryStudies, err \in BOOLEAN : Unanswered /\ GetStats(studyId, err)

SpecQuery == InitQuery /\ [][NextQuery]_vars

(***************************************************************************)
(* GET /health                                                             *)
(***************************************************************************)
Healthy == <<"h", "e", "a", "l", "t", "h", "y">>

\* The handler: it replies with the time and touches no table.
Health ==
    /\ query' = [NoQuery EXCEPT
                    !.op = "health", !.status = 200,
                    !.rows = <<[status |-> Healthy, timestamp |-> IsoChars(clock)]>>]
    /\ UNCHANGED <<surveys, responses, reqs, nextUuid, clock, reader, pager, pg, script>>

(***************************************************************************)
(* Specification SpecApi: every route of the API, the reads interleaved    *)
(* with the inserts of a submission                                        *)
(***************************************************************************)
ApiBodies == {GoodBody, ReversedBody, ShortBody}

NextApi ==
    \/ \E body \in ApiBodies : Submit(1, body)
    \/ \E err \in BOOLEAN : HeaderInsertDone(1, err)
    \/ \E i \in 1..NumQuestions, err \in BOOLEAN : ResponseInsertDone(1, i, err)
    \/ \E id \in ReadIds, err \in BOOLEAN : GetByIdLookup(id, err)
    \/ \E err \in BOOLEAN : GetByIdResponses(err)
    \/ \E studyId \in QueryStudies, limit \in {0, 1}, err \in BOOLEAN :
          ListByStudy(studyId, 0, limit, err) /\ UNCHANGED pager
    \/ \E studyId \in QueryStudies, format \in {"json", "csv"}, err \in BOOLEAN :
          ExportByStudy(studyId, format, err)
    \/ \E studyId \in QueryStudies, err \in BOOLEAN : GetStats(studyId, err)
    \/ Health

SpecApi == InitRead /\ [][NextApi]_vars

(***************************************************************************)
(* The sqlite schema of setup-database.js: deleting a survey               *)
(***************************************************************************)
\* FOREIGN KEY(survey_id) REFERENCES surveys(survey_id): no ON DELETE clause,
\* so the delete of a survey takes no response row with it.
OnDelete(id) == responses

\* DELETE FROM surveys WHERE survey_id = id, under the schema of the sqlite
\* tables.  sqlite enforces foreign keys only on a connection that has set
\* PRAGMA foreign_keys; enforced, the key rejects the delete of a survey
\* that response rows refer to, and the statement changes nothing.
DeleteSurvey(id, enforced) ==
    /\ \E s \in surveys : s.survey_id = id
    /\ ~(enforced /\ ResponsesOf(id) # {})
    /\ surveys' = {s \in surveys : s.survey_id # id}
    /\ responses' = OnDelete(id)
    /\ UNCHANGED <<reqs, nextUuid, clock, reader, query, pager, pg, script>>

(***************************************************************************)
(* Specification SpecDelete: surveys are deleted from the stores that a    *)
(* sequence of finished submissions leaves                                 *)
(***************************************************************************)
NextDelete ==
    \E id \in {s.survey_id : s \in surveys}, enforced \in BOOLEAN :
        DeleteSurvey(id, enforced)

SpecDelete == InitQuery /\ [][NextDelete]_vars

(***************************************************************************)
(* Specification SpecPaging: a client reads the listing of a study page by *)
(* page while submissions to the study complete                            *)
(***************************************************************************)
MaxPaged == 2

PagedKinds == {"defaulted", "supplied"}

InitPaging ==
    /\ \E n \in 0..MaxPaged : \E kinds \in [1..n -> PagedKinds] :
          /\ surveys = EarlierSurveys \cup StoredSurveys(kinds)
          /\ responses = EarlierResponses \cup StoredResponses(kinds)
          /\ nextUuid = ((n + 1) * (NumQuestions + 1)) + 1
          /\ clock = ArrivalTime(n + 1)
    /\ reqs = [r \in Requests |-> IdleRequest]
    /\ reader = IdleReader
    /\ query = NoQuery
    /\ pager = IdlePager
    /\ pg = NoDatabase
    /\ script = IdleScript

\* The submissions that arrive meanwhile: completed on arrival, completed at
\* the time the second stored submission may have supplied, and completed
\* between the supplied times of the first and the second.
PagingBodies ==
    {GoodBody,
     Body("P2", "S1", ResponsesFor(Identity(NumQuestions), 0), Metadata(SuppliedTime(2))),
     Body("P2", "S1", ResponsesFor(Identity(NumQuestions), 0), Metadata(SuppliedTime(2) + 1))}

\* The client decides on a study and a page size and notes what the study holds.
PagerStart(studyId, limit) ==
    /\ pager.phase = "idle"
    /\ pager' = [IdlePager EXCEPT
                    !.phase = "paging", !.studyId = studyId,
                    !.page = 1, !.limit = limit,
                    !.start = {s.survey_id : s \in SurveysOf(studyId)}]
    /\ UNCHANGED <<surveys, responses, reqs, nextUuid, clock, reader, query, pg, script>>

\* The client requests its page and, from pagination.hasMore of the reply,
\* goes on to the next page or stops; a 500 makes it request the page again.
PagerRequest(err) ==
    /\ pager.phase = "paging"
    /\ ListByStudy(pager.studyId, pager.page, pager.limit, err)
    /\ LET ids == {query'.rows[i].survey_id : i \in 1..Len(query'.rows)}
       IN  pager' =
             IF query'.status # 200 THEN pager
             ELSE [pager EXCEPT
                     !.seen  = @ \cup ids,
                     !.again = @ \cup (ids \cap pager.seen),
                     !.page  = IF query'.hasMore THEN @ + 1 ELSE @,
                     !.phase = IF query'.hasMore THEN "paging" ELSE "done"]

NextPaging ==
    \/ \E body \in PagingBodies : Submit(1, body)
    \/ \E err \in BOOLEAN : HeaderInsertDone(1, err)
    \/ \E i \in 1..NumQuestions, err \in BOOLEAN : ResponseInsertDone(1, i, err)
    \/ \E limit \in 1..MaxLimit : PagerStart("S1", limit)
    \/ \E err \in BOOLEAN : PagerRequest(err)

SpecPaging == InitPaging /\ [][NextPaging]_vars

(***************************************************************************)
(* setup-database.js: the extended schema                                  *)
(***************************************************************************)
Tables ==
    {"surveys", "survey_responses", "survey_audit_log", "study_configs", "survey_sessions"}

Indexes ==
    {"idx_surveys_patient_id", "idx_surveys_study_id", "idx_surveys_created_at",
     "idx_surveys_status", "idx_surveys_completed_at",
     "idx_survey_responses_survey_id", "idx_survey_responses_question_id",
     "idx_survey_responses_created_at",
     "idx_audit_log_survey_id", "idx_audit_log_action", "idx_audit_log_created_at",
     "idx_study_configs_study_id", "idx_study_configs_is_active",
     "idx_sessions_session_id", "idx_sessions_patient_id", "idx_sessions_expires_at",
     "idx_sessions_is_active"}

Functions == {"update_updated_at_column", "cleanup_expired_sessions", "get_survey_stats"}

Triggers ==
    {"update_surveys_updated_at", "update_survey_responses_updated_at",
     "update_study_configs_updated_at"}

\* Everything that createTablesSQL creates.
SchemaObjects == {"uuid-ossp"} \cup Tables \cup Indexes \cup Functions \cup Triggers

\* A row of surveys, with the columns that the script and its functions
\* use.  completion_time is {} for NULL.  status and version have defaults.
DefaultStatus == "in_progress"
DefaultVersion == 1
PgSurvey(id, patient, study, status, time) ==
    [id |-> id, patient_id |-> patient, study_id |-> study, status |-> status,
     version |-> DefaultVersion, completion_time |-> time]

(***************************************************************************)
(* NUMERIC values: a whole part and the digits after the decimal point     *)
(***************************************************************************)
Numeric(whole, frac) == [whole |-> whole, frac |-> frac]

\* The literal 0.
NumericZero == Numeric(0, <<>>)

\* The digits that a NUMERIC quotient of two counts, the first not above
\* the second, has after the decimal point: 16 significant digits, counted
\* from the base-10000 digit before the first digit of the quotient.
DivScale == 20

\* The first k digits after the decimal point of r / d, for 0 <= r < d.
RECURSIVE LongDivision(_, _, _)
LongDivision(r, d, k) ==
    IF k = 0 THEN <<>>
    ELSE <<(r * 10) \div d>> \o LongDivision((r * 10) % d, d, k - 1)

\* One added at the last of the digits; carry tells whether it runs over.
RECURSIVE AddOne(_)
AddOne(digits) ==
    IF digits = <<>> THEN [digits |-> <<>>, carry |-> TRUE]
    ELSE LET n    == Len(digits)
             last == digits[n]
         IN  IF last < 9
             THEN [digits |-> SubSeq(digits, 1, n - 1) \o <<last + 1>>, carry |-> FALSE]
             ELSE LET rest == AddOne(SubSeq(digits, 1, n - 1))
                  IN  [digits |-> rest.digits \o <<0>>, carry |-> rest.carry]

\* a::NUMERIC / b::NUMERIC for counts 0 <= a <= b, b > 0: the quotient
\* rounded, half up, to DivScale digits after the decimal point.
NumericDiv(a, b) ==
    LET more == LongDivision(a % b, b, DivScale + 1)
        kept == SubSeq(more, 1, DivScale)
    IN  IF more[DivScale + 1] < 5 THEN Numeric(a \div b, kept)
        ELSE LET up == AddOne(kept)
             IN  Numeric((a \div b) + (IF up.carry THEN 1 ELSE 0), up.digits)

\* The factor 100 forgotten.
NumericTimes100Omitted(x) == x

\* x * 100: the scale of a product is the sum of the scales, and 100 has
\* scale 0, so the decimal point moves and two zeros fill the end.
NumericTimes100(x) ==
    LET frac == x.frac \o <<0, 0>>
    IN  Numeric((x.whole * 100) + (frac[1] * 10) + frac[2],
                SubSeq(frac, 3, Len(frac)))

(***************************************************************************)
(* get_survey_stats(study_id_param VARCHAR DEFAULT NULL)                   *)
(***************************************************************************)
\* WHERE (study_id_param IS NULL OR study_id = study_id_param); the argument
\* is {} for NULL and {study id} otherwise.
StatsRows(db, study_id_param) ==
    {s \in db.surveys : study_id_param = {} \/ s.study_id \in study_id_param}

\* COUNT(*) FILTER (WHERE status = ...)
CountFilter(rows, status) == Cardinality({s \in rows : s.status = status})

RECURSIVE SumOfTimes(_)
SumOfTimes(rows) ==
    IF rows = {} THEN 0
    ELSE LET s == CHOOSE x \in rows : TRUE
         IN  (CHOOSE t \in s.completion_time : TRUE) + SumOfTimes(rows \ {s})

\* The one row that the function returns.  AVG is over the rows whose
\* completion_time is not NULL: the quotient sum / rows, NULL when rows = 0.
get_survey_stats(db, study_id_param) ==
    LET rows  == StatsRows(db, study_id_param)
        timed == {s \in rows : s.completion_time # {}}
        total == Cardinality(rows)
    IN  [total_surveys       |-> total,
         completed_surveys   |-> CountFilter(rows, "completed"),
         in_progress_surveys |-> CountFilter(rows, "in_progress"),
         abandoned_surveys   |-> CountFilter(rows, "abandoned"),
         avg_completion_time |-> [sum |-> SumOfTimes(timed), rows |-> Cardinality(timed)],
         completion_rate     |->
             IF total > 0
             THEN NumericTimes100(NumericDiv(CountFilter(rows, "completed"), total))
             ELSE NumericZero]

\* SELECT get_survey_stats(...) on a database that has the function.
SelectSurveyStats(study_id_param) ==
    /\ script.pc = "idle" /\ script.stats = <<>>
    /\ "get_survey_stats" \in pg.objects
    /\ script' = [script EXCEPT !.stats = <<get_survey_stats(pg, study_id_param)>>,
                                !.statsOf = study_id_param]
    /\ UNCHANGED <<surveys, responses, reqs, nextUuid, clock, reader, query, pager, pg>>

(***************************************************************************)
(* Specification SpecStats: get_survey_stats over the surveys tables that  *)
(* an application of the extended schema may have filled                   *)
(***************************************************************************)
MaxStatRows == 3

\* The statuses that the schema names, and one that it does not.
StatStatuses == {"completed", "in_progress", "abandoned", "expired"}
StatStudies == {"DEMO_STUDY_001", "STUDY_002"}

\* The i-th survey: of a patient of its own, and, when completed, with a
\* completion time.
StatSurvey(i, study, status) ==
    PgSurvey(i, "PATIENT_" \o ToString(i), study, status,
             IF status = "completed" THEN {i * 1000} ELSE {})

\* The row that insertSampleStudySQL inserts.
DemoStudy(id) == [id |-> id, study_id |-> "DEMO_STUDY_001", version |-> DefaultVersion]

InitStats ==
    /\ surveys = {} /\ responses = {}
    /\ reqs = [r \in Requests |-> IdleRequest]
    /\ nextUuid = 1 /\ clock = 1
    /\ reader = IdleReader /\ query = NoQuery /\ pager = IdlePager
    /\ \E n \in 0..MaxStatRows :
         \E study \in [1..n -> StatStudies], status \in [1..n -> StatStatuses] :
            pg = [NoDatabase EXCEPT
                    !.objects = SchemaObjects,
                    !.study_configs = {DemoStudy(1)},
                    !.surveys = {StatSurvey(i, study[i], status[i]) : i \in 1..n},
                    !.nextId = n + 2]
    /\ script = IdleScript

NextStats ==
    \E study_id_param \in {{}} \cup {{study} : study \in StatStudies \cup {"STUDY_003"}} :
        SelectSurveyStats(study_id_param)

SpecStats == InitStats /\ [][NextStats]_vars

(***************************************************************************)
(* setup-database.js: main, initializeDatabase, testDatabase               *)
(***************************************************************************)
\* What the database holds, the state of its uuid generator left out.
Contents(db) ==
    [objects |-> db.objects, surveys |-> db.surveys,
     survey_responses |-> db.survey_responses,
     survey_audit_log |-> db.survey_audit_log,
     study_configs |-> db.study_configs]

\* What a finished call of initializeDatabase or testDatabase did.
Finished(fn) ==
    [fn |-> fn, ok |-> ~script.thrown, lost |-> script.lost,
     connected |-> script.connected, released |-> script.released + 1,
     before |-> Contents(script.before), after |-> Contents(pg)]

\* The call before its pool.connect().
Call(pc) ==
    [script EXCEPT !.pc = pc, !.surveyId = 0, !.connected = 0, !.released = 0,
                   !.thrown = FALSE, !.lost = FALSE, !.stats = <<>>, !.statsOf = {},
                   !.before = pg]

\* await pool.connect() is outside the try block: when it fails the call
\* has no client to release, and main exits.
Connect(fn, from, to, fail) ==
    /\ script.pc = from
    /\ script' =
         IF fail
         THEN [script EXCEPT
                 !.pc = "exited",
                 !.runs = Append(@, [fn |-> fn, ok |-> FALSE, lost |-> TRUE,
                                     connected |-> 0, released |-> 0,
                                     before |-> Contents(pg), after |-> Contents(pg)])]
         ELSE [script EXCEPT !.pc = to, !.connected = 1]
    /\ UNCHANGED <<surveys, responses, reqs, nextUuid, clock, reader, query, pager, pg>>

\* A statement inside the try block: when it throws, the rest of the block
\* is skipped, the error is thrown on, and the finally block runs.
Throw(finally, lost) ==
    [script EXCEPT !.pc = finally, !.thrown = TRUE, !.lost = lost]

\* How often the script is run.
MaxRuns == 2

\* node setup-database.js
StartMain(production) ==
    /\ script.pc \in {"idle", "exited"}
    /\ script.started < MaxRuns
    /\ script' = [Call("init.connect") EXCEPT !.started = @ + 1,
                                               !.production = production]
    /\ UNCHANGED <<surveys, responses, reqs, nextUuid, clock, reader, query, pager, pg>>

InitConnect(fail) == Connect("initializeDatabase", "init.connect", "init.now", fail)

\* client.query('SELECT NOW()')
SelectNow(lost) ==
    /\ script.pc = "init.now"
    /\ script' = IF lost THEN Throw("init.finally", TRUE)
                 ELSE [script EXCEPT !.pc = "init.create"]
    /\ UNCHANGED <<surveys, responses, reqs, nextUuid, clock, reader, query, pager, pg>>

\* CREATE EXTENSION / TABLE / INDEX IF NOT EXISTS, CREATE OR REPLACE
\* FUNCTION, DROP TRIGGER IF EXISTS followed by CREATE TRIGGER: what exists
\* stays or is replaced by its like, what does not is created.
Create(objects, new) == [error |-> FALSE, objects |-> objects \cup new]

\* client.query(createTablesSQL): the statements of the text run as one
\* transaction, so that all of them take effect or none.
CreateTables(lost) ==
    /\ script.pc = "init.create"
    /\ LET done == Create(pg.objects, SchemaObjects)
       IN  IF lost \/ done.error
           THEN /\ script' = Throw("init.finally", lost)
                /\ UNCHANGED pg
           ELSE /\ script' = [script EXCEPT !.pc = "init.sample"]
                /\ pg' = [pg EXCEPT !.objects = done.objects]
    /\ UNCHANGED <<surveys, responses, reqs, nextUuid, clock, reader, query, pager>>

\* INSERT INTO study_configs without ON CONFLICT: study_id is UNIQUE.
InsertStudyConfigPlain(table, row) ==
    IF \E c \in table : c.study_id = row.study_id
    THEN [error |-> TRUE, table |-> table]
    ELSE [error |-> FALSE, table |-> table \cup {row}]

\* INSERT INTO study_configs ... ON CONFLICT (study_id) DO NOTHING
InsertStudyConfig(table, row) ==
    IF \E c \in table : c.study_id = row.study_id
    THEN [error |-> FALSE, table |-> table]
    ELSE [error |-> FALSE, table |-> table \cup {row}]

\* client.query(insertSampleStudySQL, [...])
InsertSampleStudy(lost) ==
    /\ script.pc = "init.sample"
    /\ LET done == InsertStudyConfig(pg.study_configs, DemoStudy(pg.nextId))
       IN  IF lost \/ done.error
           THEN /\ script' = Throw("init.finally", lost)
                /\ UNCHANGED pg
           ELSE /\ script' = [script EXCEPT !.pc = "init.tables"]
                /\ pg' = [pg EXCEPT
                            !.study_configs = done.table,
                            !.nextId = IF done.table = pg.study_configs THEN @ ELSE @ + 1]
    /\ UNCHANGED <<surveys, responses, reqs, nextUuid, clock, reader, query, pager>>

\* SELECT table_name FROM information_schema.tables ...
ListTables(lost) ==
    /\ script.pc = "init.tables"
    /\ script' = IF lost THEN Throw("init.finally", TRUE)
                 ELSE [script EXCEPT !.pc = "init.stats"]
    /\ UNCHANGED <<surveys, responses, reqs, nextUuid, clock, reader, query, pager, pg>>

\* client.query('SELECT get_survey_stats()')
SelectInitialStats(lost) ==
    /\ script.pc = "init.stats"
    /\ script' = IF lost \/ "get_survey_stats" \notin pg.objects
                 THEN Throw("init.finally", lost)
                 ELSE [script EXCEPT !.pc = "init.finally",
                                     !.stats = <<get_survey_stats(pg, {})>>]
    /\ UNCHANGED <<surveys, responses, reqs, nextUuid, clock, reader, query, pager, pg>>

\* finally { client.release(); } of initializeDatabase, and what main does
\* next: exit when the call has thrown or in production, else testDatabase.
ReleaseInit ==
    /\ script.pc = "init.finally"
    /\ LET done == Append(script.runs, Finished("initializeDatabase"))
       IN  script' =
             IF script.thrown \/ script.production
             THEN [script EXCEPT !.pc = "exited", !.released = @ + 1, !.runs = done]
             ELSE [Call("test.connect") EXCEPT !.runs = done]
    /\ UNCHANGED <<surveys, responses, reqs, nextUuid, clock, reader, query, pager, pg>>

TestConnect(fail) == Connect("testDatabase", "test.connect", "test.survey", fail)

TestPatient == "TEST_PATIENT_001"

\* CONSTRAINT unique_patient_study UNIQUE(patient_id, study_id, version)
unique_patient_study(table, row) ==
    \A s \in table :
        ~(s.patient_id = row.patient_id /\ s.study_id = row.study_id
            /\ s.version = row.version)

\* INSERT INTO surveys (patient_id, study_id, ...) VALUES ('TEST_PATIENT_001',
\* 'DEMO_STUDY_001', ...) RETURNING id
InsertTestSurvey(lost) ==
    /\ script.pc = "test.survey"
    /\ LET row == PgSurvey(pg.nextId, TestPatient, "DEMO_STUDY_001", DefaultStatus, {})
       IN  IF lost \/ ~unique_patient_study(pg.surveys, row)
           THEN /\ script' = Throw("test.finally", lost)
                /\ UNCHANGED pg
           ELSE /\ script' = [script EXCEPT !.pc = "test.response", !.surveyId = row.id]
                /\ pg' = [pg EXCEPT !.surveys = @ \cup {row}, !.nextId = @ + 1]
    /\ UNCHANGED <<surveys, responses, reqs, nextUuid, clock, reader, query, pager>>

\* INSERT INTO survey_responses (survey_id, question_id, ...) VALUES ($1, 1, ...)
InsertTestResponse(lost) ==
    /\ script.pc = "test.response"
    /\ IF lost
       THEN /\ script' = Throw("test.finally", TRUE)
            /\ UNCHANGED pg
       ELSE /\ script' = [script EXCEPT !.pc = "test.audit"]
            /\ pg' = [pg EXCEPT
                        !.survey_responses =
                            @ \cup {[id |-> pg.nextId, survey_id |-> script.surveyId,
                                     question_id |-> 1]},
                        !.nextId = @ + 1]
    /\ UNCHANGED <<surveys, responses, reqs, nextUuid, clock, reader, query, pager>>

\* INSERT INTO survey_audit_log (survey_id, action, ...) VALUES ($1, 'created', ...)
InsertTestAuditLog(lost) ==
    /\ script.pc = "test.audit"
    /\ IF lost
       THEN /\ script' = Throw("test.finally", TRUE)
            /\ UNCHANGED pg
       ELSE /\ script' = [script EXCEPT !.pc = "test.delete"]
            /\ pg' = [pg EXCEPT
                        !.survey_audit_log =
                            @ \cup {[id |-> pg.nextId, survey_id |-> script.surveyId,
                                     action |-> "created"]},
                        !.nextId = @ + 1]
    /\ UNCHANGED <<surveys, responses, reqs, nextUuid, clock, reader, query, pager>>

\* REFERENCES surveys(id) ON DELETE CASCADE: the rows of a table that refer
\* to none of the deleted surveys.
OnDeleteCascadeRows(table, deleted) ==
    {r \in table : \A s \in deleted : r.survey_id # s.id}

\* DELETE FROM surveys WHERE patient_id = $1, with 'TEST_PATIENT_001'
DeleteTestSurveys(lost) ==
    /\ script.pc = "test.delete"
    /\ IF lost
       THEN /\ script' = Throw("test.finally", TRUE)
            /\ UNCHANGED pg
       ELSE /\ script' = [script EXCEPT !.pc = "test.finally"]
            /\ LET deleted == {s \in pg.surveys : s.patient_id = TestPatient}
               IN  pg' = [pg EXCEPT
                            !.surveys = @ \ deleted,
                            !.survey_responses = OnDeleteCascadeRows(@, deleted),
                            !.survey_audit_log = OnDeleteCascadeRows(@, deleted)]
    /\ UNCHANGED <<surveys, responses, reqs, nextUuid, clock, reader, query, pager>>

\* finally { client.release(); } of testDatabase; main ends.
ReleaseTest ==
    /\ script.pc = "test.finally"
    /\ script' = [script EXCEPT !.pc = "exited", !.released = @ + 1,
                                !.runs = Append(@, Finished("testDatabase"))]
    /\ UNCHANGED <<surveys, responses, reqs, nextUuid, clock, reader, query, pager, pg>>

(***************************************************************************)
(* Specification SpecSetup: setup-database.js is run, and run again, in    *)
(* production or not, and any of its statements may fail                   *)
(***************************************************************************)
NextSetup ==
    \/ \E production \in BOOLEAN : StartMain(production)
    \/ \E fail \in BOOLEAN : InitConnect(fail)
    \/ \E lost \in BOOLEAN : SelectNow(lost)
    \/ \E lost \in BOOLEAN : CreateTables(lost)
    \/ \E lost \in BOOLEAN : InsertSampleStudy(lost)
    \/ \E lost \in BOOLEAN : ListTables(lost)
    \/ \E lost \in BOOLEAN : SelectInitialStats(lost)
    \/ ReleaseInit
    \/ \E fail \in BOOLEAN : TestConnect(fail)
    \/ \E lost \in BOOLEAN : InsertTestSurvey(lost)
    \/ \E lost \in BOOLEAN : InsertTestResponse(lost)
    \/ \E lost \in BOOLEAN : InsertTestAuditLog(lost)
    \/ \E lost \in BOOLEAN : DeleteTestSurveys(lost)
    \/ ReleaseTest

SpecSetup == Init /\ [][NextSetup]_vars

(***************************************************************************)
(* Helpers of the properties                                               *)
(***************************************************************************)
Statuses(r) == {reqs[r].replies[k].status : k \in 1..Len(reqs[r].replies)}

HeaderStored(id) == \E s \in surveys : s.survey_id = id

\* The response row that the insert at position i of request r writes.
RowOf(r, i) ==
    ResponseRow(reqs[r].firstId + i - 1, reqs[r].surveyId, reqs[r].body.responses[i])

QuestionIds(body) == {body.responses[i].questionId : i \in 1..Len(body.responses)}

\* Exactly NumQuestions responses, every question id in range, one id twice.
HasDuplicateIndex(body) ==
    /\ Len(body.responses) = NumQuestions
    /\ QuestionIds(body) \subseteq 1..NumQuestions
    /\ Cardinality(QuestionIds(body)) < NumQuestions

UniquelyIndexed(body) ==
    /\ Len(body.responses) = NumQuestions
    /\ QuestionIds(body) = 1..NumQuestions

\* The enumeration of response types that the specification names.
SpecResponseTypes ==
    {"text", "number", "boolean", "scale", "multiple_choice", "checkbox"}

\* The body with every response type replaced by "text".
WithTextTypes(body) ==
    [body EXCEPT !.responses =
        [i \in 1..Len(body.responses) |-> [body.responses[i] EXCEPT !.responseType = "text"]]]

\* A survey whose header is stored with fewer response rows than questions.
PartiallyWritten(id) ==
    HeaderStored(id) /\ Cardinality(ResponsesOf(id)) < NumQuestions

(***************************************************************************)
(* C1 (SpecRead): a reader never observes a survey with a partial response *)
(* set: every 200 reply of getById carries all NumQuestions responses.     *)
(* The code inserts the header and the responses as separate statements    *)
(* outside any transaction, so this is violated.                           *)
(***************************************************************************)
C1_ReadersSeeAllResponses ==
    (reader.phase = "done" /\ reader.status = 200)
        => Len(reader.responses) = NumQuestions

(***************************************************************************)
(* C2 (Spec): once a submission in which some response insert failed has   *)
(* finished, the store holds neither its header nor any of its response    *)
(* rows, and the client got exactly one 500.  The code never rolls back,    *)
(* so this is violated.                                                    *)
(***************************************************************************)
C2_FailedSubmitLeavesNothing ==
    \A r \in Requests :
        (reqs[r].phase = "closed" /\ reqs[r].failed # {})
            => /\ ~HeaderStored(reqs[r].surveyId)
               /\ ResponsesOf(reqs[r].surveyId) = {}
               /\ reqs[r].replies = <<Reply(500, 0, <<>>)>>

(***************************************************************************)
(* C3 (Spec): a 200 reply with a surveyId is sent only when the header and *)
(* every response row of that surveyId are stored; no insert of the        *)
(* submission is pending or has failed at that moment, whatever the order  *)
(* of the callbacks.                                                       *)
(***************************************************************************)
C3_SuccessOnlyWhenAllPersisted ==
    \A r \in Requests :
        \A k \in 1..Len(reqs[r].replies) :
            reqs[r].replies[k].status = 200
                => /\ reqs[r].replies[k].surveyId = reqs[r].surveyId
                   /\ reqs[r].header \in surveys
                   /\ reqs[r].pending = {}
                   /\ reqs[r].failed = {}
                   /\ \A i \in 1..Len(reqs[r].body.responses) : RowOf(r, i) \in responses
                   /\ Cardinality(ResponsesOf(reqs[r].surveyId)) = NumQuestions

\* One submission has replied 200 while another one lost an insert.
C3_Witness ==
    \E r1, r2 \in Requests :
        /\ 200 \in Statuses(r1)
        /\ reqs[r1].phase = "closed"
        /\ reqs[r2].failed # {}

(***************************************************************************)
(* C4 (Spec): a submission whose responses list has not exactly            *)
(* NumQuestions entries is answered with one 400 and writes nothing: the   *)
(* step that handles it leaves both tables unchanged, starts no insert,    *)
(* and no row of the store ever belongs to it.                             *)
(***************************************************************************)
WrongLength(q) == q.phase # "idle" /\ Len(q.body.responses) # NumQuestions

C4_WrongLengthState ==
    \A r \in Requests :
        WrongLength(reqs[r])
            => /\ reqs[r].phase = "closed"
               /\ Statuses(r) = {400}
               /\ Len(reqs[r].replies) = 1
               /\ reqs[r].pending = {}
               /\ reqs[r].surveyId = 0
               /\ ~HeaderStored(reqs[r].surveyId)
               /\ ResponsesOf(reqs[r].surveyId) = {}

C4_WrongLengthStep ==
    \A r \in Requests :
        (WrongLength(reqs[r]') /\ reqs[r]' # reqs[r])
            => /\ reqs[r].phase = "idle"
               /\ surveys' = surveys
               /\ responses' = responses
               /\ nextUuid' = nextUuid

C4_WrongLengthWritesNothing ==
    [](C4_WrongLengthState) /\ [][C4_WrongLengthStep]_vars

\* A list one too long has been rejected while the store holds the complete
\* survey of another submission.
C4_Witness ==
    \E r1, r2 \in Requests :
        /\ Len(reqs[r1].body.responses) = NumQuestions + 1
        /\ Statuses(r1) = {400}
        /\ 200 \in Statuses(r2)
        /\ HeaderStored(reqs[r2].surveyId)

(***************************************************************************)
(* C5 (SpecRead): a submission of exactly NumQuestions responses in which  *)
(* two entries carry the same question index is answered with 400 and      *)
(* writes nothing.  The schema has no uniqueness rule, so this is          *)
(* violated.                                                               *)
(***************************************************************************)
C5_DuplicateIndexRejected ==
    \A r \in Requests :
        (reqs[r].phase # "idle" /\ HasDuplicateIndex(reqs[r].body))
            => /\ Statuses(r) = {400}
               /\ reqs[r].phase = "closed"
               /\ reqs[r].surveyId = 0

(***************************************************************************)
(* C6 (SpecRead): every survey whose submit replied 200 has exactly one    *)
(* response row for each question index 1..NumQuestions.  Violated through *)
(* the duplicate indices that C5's validation lets pass.                   *)
(***************************************************************************)
C6_OneRowPerQuestion ==
    \A r \in Requests :
        200 \in Statuses(r)
            => \A q \in 1..NumQuestions :
                   Cardinality({x \in ResponsesOf(reqs[r].surveyId) : x.question_id = q}) = 1

(***************************************************************************)
(* C7 (SpecRead): the details of a 400 reply name every violation of the   *)
(* submission.  validate runs with abortEarly, so only the first one is    *)
(* reported and this is violated.                                          *)
(***************************************************************************)
C7_DetailsNameEveryViolation ==
    \A r \in Requests :
        400 \in Statuses(r)
            => LET details == reqs[r].replies[1].details
                   all     == JoiErrors(reqs[r].body)
               IN  {details[k] : k \in 1..Len(details)} = {all[k] : k \in 1..Len(all)}

(***************************************************************************)
(* C8 (SpecRead): a submission that is valid apart from its response types *)
(* is accepted exactly when every type is one of text, number, boolean,    *)
(* scale, multiple_choice, checkbox.  The schema leaves out checkbox, so   *)
(* this is violated.                                                       *)
(***************************************************************************)
C8_SixResponseTypes ==
    \A r \in Requests :
        (reqs[r].phase # "idle" /\ JoiErrors(WithTextTypes(reqs[r].body)) = <<>>)
            => (400 \in Statuses(r)
                  <=> \E i \in 1..Len(reqs[r].body.responses) :
                         reqs[r].body.responses[i].responseType \notin SpecResponseTypes)

(***************************************************************************)
(* C9 (SpecRead): for a valid submission with NumQuestions uniquely        *)
(* indexed responses in any order, a getById that arrives after the 200    *)
(* reply returns NumQuestions responses in ascending question index, the   *)
(* i-th one carrying the text, the answer value and the type submitted for *)
(* question i.                                                             *)
(***************************************************************************)
SubmittedFor(body, q) ==
    CHOOSE e \in {body.responses[i] : i \in 1..Len(body.responses)} : e.questionId = q

C9_RoundTrip ==
    \A r \in Requests :
        (/\ reader.phase = "done"
         /\ reader.status = 200
         /\ reader.afterReply
         /\ reader.id = reqs[r].surveyId
         /\ UniquelyIndexed(reqs[r].body))
            => /\ Len(reader.responses) = NumQuestions
               /\ \A q \in 1..NumQuestions :
                    LET e == SubmittedFor(reqs[r].body, q)
                        x == reader.responses[q]
                    IN  /\ x.question_id = q
                        /\ x.survey_id = reader.id
                        /\ x.question_text = e.question
                        /\ x.answer = e.answer
                        /\ x.response_type = e.responseType

\* The reply to a submission sent in descending order, with a text answer that
\* holds a quote and a backslash, read back beside another stored survey.
C9_Witness ==
    /\ reader.phase = "done"
    /\ reader.status = 200
    /\ reader.afterReply
    /\ reader.id = reqs[1].surveyId
    /\ reqs[1].body.responses[1].questionId = NumQuestions
    /\ \E q \in 1..NumQuestions : reader.responses[q].answer = Str(<<"a", DQ, "b", BS>>)
    /\ Len(reader.responses) = NumQuestions
    /\ EarlierSurveys \subseteq surveys

(***************************************************************************)
(* C10 (SpecRead), as claimed: getById of an identifier that no stored     *)
(* survey has always replies 404.  Violated when the driver reports an     *)
(* error for the lookup, which the handler answers with 500.               *)
(***************************************************************************)
C10_UnknownIdAlways404 ==
    (reader.phase = "done" /\ ~HeaderStored(reader.id)) => reader.status = 404

(***************************************************************************)
(* C10 (SpecRead), amended: getById of an identifier that no stored survey *)
(* has ends with the lookup; it replies 404 unless the driver reports an   *)
(* error for the lookup query, in which case it replies 500; in both cases *)
(* the store is left unchanged.                                            *)
(***************************************************************************)
C10_UnknownIdState ==
    (reader.phase # "idle" /\ ~HeaderStored(reader.id))
        => /\ reader.phase = "done"
           /\ reader.status = (IF reader.dbError THEN 500 ELSE 404)
           /\ reader.responses = <<>>
           /\ reader.survey = {}

C10_UnknownIdStep ==
    (reader' # reader /\ ~HeaderStored(reader'.id))
        => /\ surveys' = surveys
           /\ responses' = responses
           /\ reqs' = reqs

C10_UnknownIdNotFound ==
    [](C10_UnknownIdState) /\ [][C10_UnknownIdStep]_vars

\* A 404 for an unknown id while the store holds a complete survey and a
\* partially written one.
C10_Witness ==
    /\ reader.phase = "done"
    /\ reader.status = 404
    /\ ~reader.dbError
    /\ EarlierSurveys \subseteq surveys
    /\ \E r \in Requests : PartiallyWritten(reqs[r].surveyId)

(***************************************************************************)
(* C18 (Spec): the reply of POST /api/surveys is determined by the         *)
(* outcome.  A submission never has more than one reply, and once it has   *)
(* finished it has exactly one: 400 with a non-empty details list exactly  *)
(* when validation fails, 500 exactly when the header insert or at least   *)
(* one response insert failed, and 200 with the surveyId exactly when      *)
(* validation passed and the header and every response row were inserted.  *)
(* A reply that is already sent while inserts are pending is the 500 of a   *)
(* failed response insert.                                                 *)
(***************************************************************************)
Invalid(r) == reqs[r].phase # "idle" /\ validate(reqs[r].body).error

HeaderFailed(r) ==
    reqs[r].phase = "closed" /\ ~Invalid(r) /\ reqs[r].header \notin surveys

AllInserted(r) ==
    /\ reqs[r].phase = "closed" /\ ~Invalid(r)
    /\ reqs[r].header \in surveys
    /\ \A i \in 1..Len(reqs[r].body.responses) : RowOf(r, i) \in responses

C18_ReplyDeterminedByOutcome ==
    \A r \in Requests :
        LET q == reqs[r]
        IN  /\ Len(q.replies) <= 1
            /\ q.phase = "closed" => Len(q.replies) = 1
            /\ q.replies # <<>> =>
                   LET reply == q.replies[1]
                   IN  /\ reply.status \in {200, 400, 500}
                       /\ reply.status = 400 <=> Invalid(r)
                       /\ reply.status = 400 => reply.details # <<>> /\ reply.surveyId = 0
                       /\ reply.status = 500 <=> (HeaderFailed(r) \/ q.failed # {})
                       /\ reply.status = 500 => reply = Reply(500, 0, <<>>)
                       /\ reply.status = 200 <=> AllInserted(r)
                       /\ reply.status = 200 => reply = Reply(200, q.surveyId, <<>>)
            /\ (Invalid(r) \/ HeaderFailed(r) \/ q.failed # {} \/ AllInserted(r))
                   => q.replies # <<>>

\* One finished submission lost two response inserts, the other one was
\* rejected by the validator.
C18_Witness ==
    \E r1, r2 \in Requests :
        /\ reqs[r1].phase = "closed" /\ Cardinality(reqs[r1].failed) >= 2
        /\ reqs[r1].replies = <<Reply(500, 0, <<>>)>>
        /\ reqs[r2].phase = "closed" /\ Invalid(r2)

(***************************************************************************)
(* C20 (Spec): two submissions whose insert callbacks interleave proceed   *)
(* independently.  Two submissions that passed validation have distinct    *)
(* surveyIds; the response rows stored under the surveyId of a submission  *)
(* are exactly the rows of its own inserts that succeeded; and a step of   *)
(* one submission (an arrival, a header callback, a response callback,     *)
(* failed or not) changes neither the state and the replies of the other   *)
(* submission nor the rows stored for it: it removes no row, and the rows  *)
(* it adds carry its own surveyId.                                         *)
(***************************************************************************)
Accepted(r) == reqs[r].phase \in {"header", "responses", "closed"} /\ ~Invalid(r)

Inserted(r) ==
    IF reqs[r].phase \in {"responses", "closed"} /\ reqs[r].header \in surveys
    THEN {RowOf(r, i) : i \in (1..Len(reqs[r].body.responses)) \ (reqs[r].pending \cup reqs[r].failed)}
    ELSE {}

C20_IndependentState ==
    \A r \in Requests :
        Accepted(r) =>
            /\ \A o \in Requests \ {r} : Accepted(o) => reqs[o].surveyId # reqs[r].surveyId
            /\ ResponsesOf(reqs[r].surveyId) = Inserted(r)
            /\ {s \in surveys : s.survey_id = reqs[r].surveyId} \subseteq {reqs[r].header}

C20_IndependentStep ==
    \A r \in Requests :
        reqs'[r] # reqs[r] =>
            /\ \A o \in Requests \ {r} : reqs'[o] = reqs[o]
            /\ surveys \subseteq surveys' /\ responses \subseteq responses'
            /\ \A s \in surveys' \ surveys : s.survey_id = reqs[r].surveyId
            /\ \A x \in responses' \ responses : x.survey_id = reqs[r].surveyId

C20_SubmissionsIndependent == []C20_IndependentState /\ [][C20_IndependentStep]_vars

\* The second submission arrived before the header callback of the first;
\* the first lost a response insert and replied 500, the second stored all
\* its rows and replied 200.
C20_Witness ==
    /\ reqs[1].phase = "closed" /\ reqs[2].phase = "closed"
    /\ reqs[1].surveyId < reqs[2].surveyId /\ reqs[2].surveyId < reqs[1].firstId
    /\ reqs[1].failed # {} /\ reqs[1].replies = <<Reply(500, 0, <<>>)>>
    /\ reqs[2].replies = <<Reply(200, reqs[2].surveyId, <<>>)>>
    /\ Cardinality(ResponsesOf(reqs[2].surveyId)) = NumQuestions

(***************************************************************************)
(* Helpers of the properties of the routes of a study                      *)
(***************************************************************************)
Answered(op) == query.op = op /\ query.status = 200

SurveyWithId(id) == CHOOSE s \in surveys : s.survey_id = id

\* The completion time of a stored survey, supplied or defaulted.
CompletionTime(id) == SurveyWithId(id).completed_at.t

StudyResponses(studyId) ==
    {r \in responses : \E s \in SurveysOf(studyId) : s.survey_id = r.survey_id}

\* The number of surveys on page number page of total surveys.
PageSize(total, page, limit) ==
    LET before == (page - 1) * limit
    IN  IF total <= before THEN 0
        ELSE IF total - before < limit THEN total - before
        ELSE limit

\* A reader of one CSV record: fields separated by commas; a field that
\* opens with a double quote ends at the first quote that is not doubled.
CsvFail == [ok |-> FALSE, fields |-> <<>>]

RECURSIVE CsvQuoted(_, _)
CsvQuoted(txt, acc) ==
    IF txt = <<>> THEN [ok |-> FALSE, value |-> acc, rest |-> <<>>]
    ELSE IF Head(txt) = DQ
         THEN IF Len(txt) >= 2 /\ txt[2] = DQ
              THEN CsvQuoted(Drop(txt, 2), Append(acc, DQ))
              ELSE [ok |-> TRUE, value |-> acc, rest |-> Tail(txt)]
    ELSE CsvQuoted(Tail(txt), Append(acc, Head(txt)))

RECURSIVE CsvUnquoted(_, _)
CsvUnquoted(txt, acc) ==
    IF txt = <<>> \/ Head(txt) = "," THEN [ok |-> TRUE, value |-> acc, rest |-> txt]
    ELSE IF Head(txt) = DQ THEN [ok |-> FALSE, value |-> acc, rest |-> <<>>]
    ELSE CsvUnquoted(Tail(txt), Append(acc, Head(txt)))

RECURSIVE CsvFields(_, _)
CsvFields(txt, acc) ==
    LET quoted == txt # <<>> /\ Head(txt) = DQ
        f      == IF quoted THEN CsvQuoted(Tail(txt), <<>>) ELSE CsvUnquoted(txt, <<>>)
        fields == Append(acc, [quoted |-> quoted, value |-> f.value])
    IN  IF ~f.ok THEN CsvFail
        ELSE IF f.rest = <<>> THEN [ok |-> TRUE, fields |-> fields]
        ELSE IF Head(f.rest) = "," THEN CsvFields(Tail(f.rest), fields)
        ELSE CsvFail

CsvRecord(line) == CsvFields(line, <<>>)

\* The data rows of a CSV reply.
DataLines == 2..Len(query.csv)

\* The text of an answer in a CSV cell: a string as it is, every other value
\* in its JSON form.
AnswerCellText(text) ==
    LET v == JSONparse(text)
    IN  IF v.t = "string" THEN v.s ELSE text

(***************************************************************************)
(* C11 (SpecQuery): for every study, page number p >= 1 and page size      *)
(* s >= 1, the listing reports hasMore = true exactly when the page it      *)
(* returns has s surveys; the page holds the surveys that p and s leave of  *)
(* the study's surveys, so 5 surveys with s = 2 come as pages of 2, 2 and 1 *)
(* with hasMore true, true, false.                                         *)
(***************************************************************************)
C11_HasMoreIffPageFull ==
    Answered("list") =>
        /\ query.page >= 1 /\ query.limit >= 1
        /\ query.hasMore <=> (Len(query.rows) = query.limit)
        /\ Len(query.rows)
              = PageSize(Cardinality(SurveysOf(query.studyId)), query.page, query.limit)

\* The third page of size 2 of a study with 5 surveys: one survey, no more.
C11_Witness ==
    /\ Answered("list")
    /\ Cardinality(SurveysOf(query.studyId)) = 5
    /\ query.page = 3 /\ query.limit = 2
    /\ Len(query.rows) = 1
    /\ ~query.hasMore

(***************************************************************************)
(* C12 (SpecQuery): the listing returns only surveys of the requested      *)
(* study, most recently completed first, whether the completion time was   *)
(* supplied in metadata.completedAt or defaulted to the submission time.   *)
(* A supplied time is stored as the text of a number and a defaulted one   *)
(* as an ISO text, and ORDER BY compares the texts, so this is violated.   *)
(***************************************************************************)
C12_ListedMostRecentFirst ==
    Answered("list") =>
        /\ \A i \in 1..Len(query.rows) :
              /\ query.rows[i].study_id = query.studyId
              /\ \E s \in SurveysOf(query.studyId) : s.survey_id = query.rows[i].survey_id
        /\ \A i, k \in 1..Len(query.rows) :
              i < k => CompletionTime(query.rows[i].survey_id)
                          >= CompletionTime(query.rows[k].survey_id)

(***************************************************************************)
(* C13 (SpecQuery): every listed survey is annotated with a response count *)
(* equal to the number of response rows stored for it, and that number is  *)
(* NumQuestions for every survey that can be listed.  Surveys whose        *)
(* response inserts failed stay in the store, so this is violated.         *)
(***************************************************************************)
C13_CountIsAllQuestions ==
    Answered("list") =>
        \A i \in 1..Len(query.rows) :
            /\ query.rows[i].response_count
                  = Cardinality(ResponsesOf(query.rows[i].survey_id))
            /\ query.rows[i].response_count = NumQuestions

(***************************************************************************)
(* C14 (SpecQuery): the export returns every (survey, response) pair of    *)
(* the requested study exactly once and no pair of another study, ordered  *)
(* by completion time descending and, within one survey, by question id    *)
(* ascending.  The order is that of the completed_at texts and a survey    *)
(* without response rows yields a row of NULLs, so this is violated.       *)
(***************************************************************************)
C14_ExportCompleteAndOrdered ==
    (Answered("export") /\ query.format = "json") =>
        /\ Len(query.rows) = Cardinality(StudyResponses(query.studyId))
        /\ \A r \in StudyResponses(query.studyId) :
              Cardinality({i \in 1..Len(query.rows) :
                              /\ query.rows[i].survey_id = r.survey_id
                              /\ query.rows[i].question_id = Num(r.question_id)
                              /\ query.rows[i].answer = Str(r.answer)}) = 1
        /\ \A i \in 1..Len(query.rows) : query.rows[i].study_id = query.studyId
        /\ \A i, k \in 1..Len(query.rows) :
              i < k =>
                 LET x == query.rows[i]
                     y == query.rows[k]
                 IN  IF x.survey_id = y.survey_id
                     THEN x.question_id.n < y.question_id.n
                     ELSE CompletionTime(x.survey_id) >= CompletionTime(y.survey_id)

(***************************************************************************)
(* C15 (SpecQuery): each row of the JSON export carries the answer as the  *)
(* native value that was submitted, not as its storage text, and each data *)
(* row of the CSV export carries the same answer as a string.  The JSON    *)
(* branch sends the rows as the query returned them, with the answer still *)
(* in its storage text, so this is violated.                               *)
(***************************************************************************)
C15_JsonAnswerNative ==
    /\ (Answered("export") /\ query.format = "json") =>
          \A i \in 1..Len(query.rows) :
              query.rows[i].question_id # Null =>
                 \E r \in ResponsesOf(query.rows[i].survey_id) :
                     /\ Num(r.question_id) = query.rows[i].question_id
                     /\ query.rows[i].answer = JSONparse(r.answer)
    /\ (Answered("export") /\ query.format = "csv") =>
          \A i \in DataLines :
              LET rec == CsvRecord(query.csv[i])
              IN  (rec.ok /\ Len(rec.fields) = 8 /\ rec.fields[5].value # JsString(Null)) =>
                     \E r \in StudyResponses(query.studyId) :
                         /\ NatToChars(r.survey_id) = rec.fields[1].value
                         /\ NumToChars(r.question_id) = rec.fields[5].value
                         /\ AnswerCellText(r.answer) = rec.fields[7].value

(***************************************************************************)
(* C16 (SpecQuery): the CSV export is the header line followed by exactly  *)
(* one data row per stored response of the study: a survey with N response *)
(* rows contributes N data rows, each with the fields of the survey, and a *)
(* survey with no response rows contributes none.  The LEFT JOIN yields a   *)
(* row of NULLs for a survey without response rows, so this is violated.   *)
(***************************************************************************)
C16_OneCsvRowPerResponse ==
    (Answered("export") /\ query.format = "csv") =>
        /\ Len(query.csv) >= 1
        /\ query.csv[1] = <<"survey_id", ",", "patient_id", ",", "study_id", ",",
                            "completed_at", ",", "question_id", ",", "question_text", ",",
                            "answer", ",", "response_type">>
        /\ Len(query.csv) - 1 = Cardinality(StudyResponses(query.studyId))
        /\ \A s \in SurveysOf(query.studyId) :
              Cardinality({i \in DataLines :
                              LET rec == CsvRecord(query.csv[i])
                              IN  /\ rec.ok /\ Len(rec.fields) = 8
                                  /\ rec.fields[1].value = NatToChars(s.survey_id)
                                  /\ rec.fields[2].value = <<s.patient_id>>
                                  /\ rec.fields[3].value = <<s.study_id>>
                                  /\ rec.fields[4].value = CompletedAtText(s.completed_at)})
                 = Cardinality(ResponsesOf(s.survey_id))

(***************************************************************************)
(* C17 (SpecQuery): every data row of the CSV export reads back as exactly *)
(* 8 cells, each of them enclosed in double quotes with its internal       *)
(* double quotes doubled, and the cells of a stored response carry its     *)
(* question and its answer whole: an answer with commas or quotes, such as *)
(* the list ["a","b"], is one cell.                                        *)
(***************************************************************************)
C17_EightQuotedCells ==
    (Answered("export") /\ query.format = "csv") =>
        \A i \in DataLines :
            LET rec == CsvRecord(query.csv[i])
            IN  /\ rec.ok
                /\ Len(rec.fields) = 8
                /\ \A c \in 1..Len(rec.fields) : rec.fields[c].quoted
                /\ \/ rec.fields[5].value = JsString(Null)
                   \/ \E r \in StudyResponses(query.studyId) :
                         /\ NatToChars(r.survey_id) = rec.fields[1].value
                         /\ NumToChars(r.question_id) = rec.fields[5].value
                         /\ r.question_text = rec.fields[6].value
                         /\ AnswerCellText(r.answer) = rec.fields[7].value
                         /\ <<r.response_type>> = rec.fields[8].value

\* A data row whose answer cell is the list ["a","b"], and one whose answer
\* cell is a text with a double quote.
C17_Witness ==
    /\ Answered("export") /\ query.format = "csv"
    /\ \E i \in DataLines :
          LET rec == CsvRecord(query.csv[i])
          IN  /\ rec.ok /\ Len(rec.fields) = 8
              /\ rec.fields[7].value = <<"[", DQ, "a", DQ, ",", DQ, "b", DQ, "]">>
    /\ \E i \in DataLines :
          LET rec == CsvRecord(query.csv[i])
          IN  /\ rec.ok /\ Len(rec.fields) = 8
              /\ rec.fields[7].value = <<"a", DQ, "b", BS>>

(***************************************************************************)
(* C19 (SpecQuery): the listing, the export and the analytics of a study   *)
(* for which no survey is stored reply 404, as getById does for an unknown *)
(* survey id.  None of the three handlers tests for an empty result: they  *)
(* reply 200 with no rows, so this is violated.                            *)
(***************************************************************************)
C19_UnknownStudy404 ==
    (query.op \in {"list", "export", "analytics"}
        /\ SurveysOf(query.studyId) = {}
        /\ query.status # 500)
        => query.status = 404

(***************************************************************************)
(* C25 (Spec): every POST /api/surveys request receives exactly one reply, *)
(* never none and never two, in every order of the response-insert         *)
(* callbacks and for any number of failing inserts: no request ever has    *)
(* more than one reply, a request whose handler and callbacks have all run *)
(* has exactly one, and a reply, once sent, is never followed by another.  *)
(***************************************************************************)
C25_OneReplyState ==
    \A r \in Requests :
        /\ Len(reqs[r].replies) <= 1
        /\ reqs[r].phase = "closed" => Len(reqs[r].replies) = 1
        /\ reqs[r].phase \in {"idle", "header"} => reqs[r].replies = <<>>

C25_OneReplyStep ==
    \A r \in Requests : reqs[r].replies # <<>> => reqs'[r].replies = reqs[r].replies

C25_ExactlyOneReply == []C25_OneReplyState /\ [][C25_OneReplyStep]_vars

\* Every response insert of a finished submission failed, and it has its one
\* reply; the inserts of another succeeded and failed in turn.
C25_Witness ==
    \E r1, r2 \in Requests :
        /\ reqs[r1].phase = "closed" /\ reqs[r1].failed = 1..NumQuestions
        /\ Len(reqs[r1].replies) = 1
        /\ reqs[r2].phase = "closed" /\ reqs[r2].failed # {}
        /\ reqs[r2].failed # 1..NumQuestions
        /\ Len(reqs[r2].replies) = 1

(***************************************************************************)
(* C26 (Spec): if the header insert of a submission fails, the submission  *)
(* replies 500, attempts no response insert, and leaves both tables as     *)
(* they were: the callback that reports the failure changes neither table  *)
(* and draws no uuid, and no row of the store ever carries the surveyId of *)
(* that submission.                                                        *)
(***************************************************************************)
C26_HeaderFailureState ==
    \A r \in Requests :
        HeaderFailed(r) =>
            /\ reqs[r].replies = <<Reply(500, 0, <<>>)>>
            /\ reqs[r].pending = {} /\ reqs[r].failed = {}
            /\ reqs[r].firstId = 0 /\ reqs[r].completed = 0
            /\ ~HeaderStored(reqs[r].surveyId)
            /\ ResponsesOf(reqs[r].surveyId) = {}

C26_HeaderFailureStep ==
    \A r \in Requests :
        (reqs[r].phase = "header" /\ reqs'[r].phase # "header"
            /\ reqs[r].header \notin surveys') =>
                /\ surveys' = surveys /\ responses' = responses
                /\ nextUuid' = nextUuid
                /\ reqs'[r].phase = "closed"
                /\ reqs'[r].replies = <<Reply(500, 0, <<>>)>>

C26_HeaderFailureWritesNothing ==
    []C26_HeaderFailureState /\ [][C26_HeaderFailureStep]_vars

\* The header insert of one submission failed while the store holds the
\* rows of another.
C26_Witness ==
    \E r1, r2 \in Requests :
        /\ HeaderFailed(r1)
        /\ reqs[r2].header \in surveys
        /\ ResponsesOf(reqs[r2].surveyId) # {}

(***************************************************************************)
(* C21 (SpecApi): getById, listByStudy, exportByStudy, getStats and health *)
(* leave both tables unchanged, and no operation of the API modifies or    *)
(* removes a row: in every step each table keeps all the rows it had, and  *)
(* a step in which a read route replies or advances changes no table.      *)
(***************************************************************************)
C21_TablesOnlyGrow == surveys \subseteq surveys' /\ responses \subseteq responses'

C21_ReadsWriteNothing ==
    (reader' # reader \/ query' # query) =>
        (surveys' = surveys /\ responses' = responses)

C21_ReadsLeaveTables == [][C21_TablesOnlyGrow /\ C21_ReadsWriteNothing]_vars

\* Reads were answered after a submission added its rows to those of an
\* earlier one, which are still there.
C21_Witness ==
    /\ reqs[1].phase = "closed" /\ reqs[1].header \in surveys
    /\ ResponsesOf(reqs[1].surveyId) # {}
    /\ EarlierSurveys \subseteq surveys /\ EarlierResponses \subseteq responses
    /\ reader.phase = "done" /\ reader.status = 200
    /\ query.op = "health" /\ query.status = 200

IsTextOfTime(value, s) == value = Str(CompletedAtText(s.completed_at))

(***************************************************************************)
(* C22 (SpecQuery): for every store, the analytics of a study report the   *)
(* number of its surveys, the number of distinct patients among them, as   *)
(* average the number of their response rows divided by the number of      *)
(* surveys, and as first and last survey the completion times of the       *)
(* surveys completed earliest and latest.                                  *)
(***************************************************************************)
C22_StatsOfStudy ==
    Answered("analytics") =>
        LET a     == query.rows[1]
            found == SurveysOf(query.studyId)
            n     == Cardinality(found)
        IN  /\ a.total_surveys = n
            /\ a.unique_patients = Cardinality({s.patient_id : s \in found})
            /\ n > 0 =>
                /\ a.avg_responses_per_survey.rows > 0
                /\ a.avg_responses_per_survey.sum * n
                     = Cardinality(StudyResponses(query.studyId))
                         * a.avg_responses_per_survey.rows
                /\ \E s \in found :
                      /\ IsTextOfTime(a.first_survey, s)
                      /\ \A o \in found : s.completed_at.t <= o.completed_at.t
                /\ \E s \in found :
                      /\ IsTextOfTime(a.last_survey, s)
                      /\ \A o \in found : o.completed_at.t <= s.completed_at.t

PositionByTime(found, id) ==
    1 + Cardinality({s \in found : s.completed_at.t > CompletionTime(id)})

DistinctCompletionTimes(found) ==
    \A s, o \in found : s # o => s.completed_at.t # o.completed_at.t

(***************************************************************************)
(* C28 (SpecQuery): with no write between the requests and pairwise        *)
(* distinct completion times, page p of size s of a study with n surveys   *)
(* holds the surveys at positions (p-1)*s+1 .. min(p*s, n) of the study's  *)
(* surveys in descending order of completion time, so that the pages are   *)
(* pairwise disjoint and their concatenation is the complete list.  The    *)
(* position of a survey is one more than the number of surveys of the      *)
(* study completed after it.                                               *)
(***************************************************************************)
C28_PagesSliceDescendingOrder ==
    (Answered("list") /\ DistinctCompletionTimes(SurveysOf(query.studyId))) =>
        LET found == SurveysOf(query.studyId)
        IN  /\ Len(query.rows) = PageSize(Cardinality(found), query.page, query.limit)
            /\ \A i \in 1..Len(query.rows) :
                  PositionByTime(found, query.rows[i].survey_id)
                      = (query.page - 1) * query.limit + i

(***************************************************************************)
(* C23 (SpecDelete): responses are owned by their survey; deleting a       *)
(* survey removes every response row that refers to it, so no reachable    *)
(* state holds a response row whose survey does not exist.  The sqlite     *)
(* schema declares the foreign key without ON DELETE CASCADE, so this is   *)
(* violated.                                                               *)
(***************************************************************************)
C23_NoResponseWithoutSurvey == \A r \in responses : HeaderStored(r.survey_id)

(***************************************************************************)
(* C27 (SpecPaging): a client that pages through a study from page 1       *)
(* upward with a fixed page size until hasMore is false, while submissions *)
(* to the study complete between its requests, has been returned every     *)
(* survey that existed when it started.  Two surveys with the same         *)
(* completion time are returned in an order that ORDER BY leaves open, and *)
(* that may differ from one request to the next, so this is violated.      *)
(***************************************************************************)
C27_NoSurveySkipped == pager.phase = "done" => pager.start \subseteq pager.seen

(***************************************************************************)
(* C27, amended (SpecPaging): the same, provided the surveys of the study, *)
(* those that existed at the start and those that arrived, have pairwise   *)
(* distinct completion times.                                              *)
(***************************************************************************)
C27_NoSurveySkippedDistinctTimes ==
    (pager.phase = "done" /\ DistinctCompletionTimes(SurveysOf(pager.studyId)))
        => pager.start \subseteq pager.seen

\* The client is done; a submission completed while it paged; a survey that
\* existed at the start was returned on two pages; none was skipped.
C27_Witness ==
    /\ pager.phase = "done"
    /\ DistinctCompletionTimes(SurveysOf(pager.studyId))
    /\ pager.start # {} /\ pager.start \subseteq pager.seen
    /\ pager.start \cap pager.again # {}
    /\ reqs[1].phase = "closed" /\ reqs[1].header \in surveys

\* The distance of a NUMERIC value x from the quotient num / den, in units
\* of den / 10^Len(x.frac): with E(0) = num - den * whole and
\* E(k) = 10 * E(k-1) - den * digit(k) it is E(Len(x.frac)).  Distances
\* beyond a thousand dens are cut off there.
RECURSIVE Distance(_, _, _)
Distance(e, den, digits) ==
    IF digits = <<>> THEN e
    ELSE LET next == (10 * e) - (den * digits[1])
             cut  == IF next > 1000 * den THEN 1000 * den
                     ELSE IF next < 0 - (1000 * den) THEN 0 - (1000 * den)
                     ELSE next
         IN  Distance(cut, den, Tail(digits))

\* x is num / den to within half a unit of the 18th digit after the point.
IsQuotient(x, num, den) ==
    /\ Len(x.frac) = DivScale
    /\ LET d == Distance(num - (den * x.whole), den, x.frac)
       IN  d <= 50 * den /\ 0 - d <= 50 * den

(***************************************************************************)
(* C24 (SpecStats): get_survey_stats of a study returns completed +        *)
(* in_progress + abandoned equal to total_surveys whenever every survey of *)
(* the study has one of those three statuses, a completion rate equal to   *)
(* 100 * completed / total (as a NUMERIC: to the digits that it keeps),    *)
(* and a completion rate of 0 when the study has no survey.                *)
(***************************************************************************)
C24_StatsBreakdown ==
    script.stats # <<>> =>
        LET st   == script.stats[1]
            rows == StatsRows(pg, script.statsOf)
        IN  /\ st.total_surveys = Cardinality(rows)
            /\ (\A s \in rows : s.status \in {"completed", "in_progress", "abandoned"})
                  => st.completed_surveys + st.in_progress_surveys + st.abandoned_surveys
                        = st.total_surveys
            /\ st.total_surveys > 0
                  => IsQuotient(st.completion_rate, 100 * st.completed_surveys,
                                st.total_surveys)
            /\ st.total_surveys = 0 => st.completion_rate = NumericZero

\* One of the three surveys of a study is completed, the others in progress
\* and abandoned: the rate is 33.33..., and the three counts add up.
C24_Witness ==
    /\ script.stats # <<>> /\ script.statsOf = {"DEMO_STUDY_001"}
    /\ script.stats[1].total_surveys = 3
    /\ script.stats[1].completed_surveys = 1
    /\ script.stats[1].in_progress_surveys = 1
    /\ script.stats[1].abandoned_surveys = 1
    /\ script.stats[1].completion_rate.whole = 33
    /\ script.stats[1].completion_rate.frac[1] = 3

\* The calls of fn that have finished, by their place in the run.
CallsOf(fn) == {k \in 1..Len(script.runs) : script.runs[k].fn = fn}

TestRows(contents) ==
    LET test == {s \in contents.surveys : s.patient_id = TestPatient}
    IN  test \cup {r \in contents.survey_responses \cup contents.survey_audit_log :
                     \E s \in test : r.survey_id = s.id}

(***************************************************************************)
(* C29 (SpecSetup): initializeDatabase is idempotent.  A call none of      *)
(* whose statements fails for a reason outside its SQL succeeds, whatever  *)
(* earlier calls have left; a call that succeeds leaves all the tables and *)
(* exactly one study_configs row for DEMO_STUDY_001; and a call that       *)
(* succeeds after an earlier call has succeeded changes nothing.           *)
(***************************************************************************)
C29_InitializeIdempotent ==
    \A k \in CallsOf("initializeDatabase") :
        LET run == script.runs[k]
        IN  /\ ~run.lost => run.ok
            /\ run.ok =>
                 /\ Tables \subseteq run.after.objects
                 /\ Cardinality({c \in run.after.study_configs :
                                    c.study_id = "DEMO_STUDY_001"}) = 1
            /\ (run.ok /\ \E j \in CallsOf("initializeDatabase") :
                              j < k /\ script.runs[j].ok)
                 => run.after = run.before

\* The script has run twice in production: initializeDatabase twice in a
\* row, both times with success, the second time changing nothing.
C29_Witness ==
    /\ Len(script.runs) = 2
    /\ \A k \in 1..2 : script.runs[k].fn = "initializeDatabase" /\ script.runs[k].ok
    /\ script.runs[1].before.objects = {}
    /\ script.runs[2].before = script.runs[1].after
    /\ script.runs[2].after = script.runs[2].before

(***************************************************************************)
(* C30 (SpecSetup): testDatabase leaves the database as it found it on     *)
(* every path, whether it returns or throws after any of its inserts: no   *)
(* survey, response or audit-log row of TEST_PATIENT_001 remains, so that  *)
(* a later call does not fail on unique_patient_study, and the pooled      *)
(* client is released exactly once.  The DELETE that cleans up is the last *)
(* statement of the try block, so this is violated.                        *)
(***************************************************************************)
C30_TestLeavesNoTrace ==
    \A k \in CallsOf("testDatabase") :
        LET run == script.runs[k]
        IN  /\ run.released = run.connected
            /\ run.after = run.before
            /\ TestRows(run.after) = {}
            /\ ~run.lost => run.ok

====
